---------------------------- MODULE Spec2Model ----------------------------
(***************************************************************************)
(* Oklahoma flood research dashboard (src/app.py).                         *)
(*                                                                         *)
(* The specifications share the variables below:                           *)
(*   SpecSeverity  the derived-metrics calculator applied to bounded       *)
(*                 (damage, fatalities, injuries) inputs;                  *)
(*   SpecMK        mann_kendall_trend_test applied to bounded series;      *)
(*   SpecFreq      calculate_return_period and                             *)
(*                 calculate_flood_frequency_curve on bounded series;      *)
(*   SpecDecomp    time_series_decomposition on bounded event tables;      *)
(*   SpecExport    the research CSV export of a filtered view, read back;  *)
(*   SpecSummary   the statistical summary report of a filtered view;      *)
(*   Spec          the dashboard: the cached load functions and main(),    *)
(*                 re-run from the top on every widget interaction;        *)
(*   SpecSessions  two sessions running main() interleaved.                *)
(***************************************************************************)
EXTENDS Integers, Sequences, FiniteSets, TLC

VARIABLES
    fn,             \* the pure function a harness has called ("none" before)
    args,           \* the arguments of that call
    ret,            \* the value it returned
    cache_events,   \* st.cache_data store of load_oklahoma_flood_data
    cache_counties, \* st.cache_data store of load_oklahoma_counties
    flood_df,       \* main's flood_df after the last script run
    county_data,    \* main's county_data after the last script run
    filtered_df,    \* main's filtered_df after the last script run
    sel,            \* the sidebar widgets' current values
    display,        \* what the last script run rendered
    metrics,        \* the figures the last script run displayed
    calls,          \* what the last script run invoked on filtered_df
    sessions        \* the script runs of concurrent sessions (SpecSessions)

vars == <<fn, args, ret, cache_events, cache_counties, flood_df, county_data,
          filtered_df, sel, display, metrics, calls, sessions>>

callVars == <<fn, args, ret>>
appVars == <<cache_events, cache_counties, flood_df, county_data,
             filtered_df, sel, display, metrics, calls, sessions>>

None == "None"

Max2(a, b) == IF a >= b THEN a ELSE b

\* No county detail panel, and no figures at all: what a run that takes
\* the branch without events leaves displayed.
NoPanel ==
    [shown |-> FALSE, full_name |-> "", county_events |-> 0,
     county_damage |-> 0, high_sev_county |-> 0]

NoMetrics ==
    [annual_counts |-> <<>>, annual_damages |-> <<>>,
     annual_frequency |-> [num |-> 0, den |-> 1],
     county_panel |-> NoPanel, map_markers |-> <<>>]

(***************************************************************************)
(* Bounds of the pure-function harnesses.                                  *)
(***************************************************************************)
MaxFatalities == 3
MaxInjuries == 12

\* Damage amounts around every threshold of the calculator.
LossSamples ==
    {0, 500000, 999999, 1000000, 2000000, 9999999, 10000000, 10000001,
     25000000, 49999999, 50000000, 50000001, 60000000}

(***************************************************************************)
(* Derived-metrics calculator                                              *)
(***************************************************************************)

damage_score_Exclusive(damage) ==
    IF damage > 50000000 THEN 3
    ELSE IF damage > 10000000 THEN 2
    ELSE IF damage > 1000000 THEN 1
    ELSE 0

\* The damage scoring of calculate_severity_level.
damage_score(damage) ==
    IF damage >= 50000000 THEN 3
    ELSE IF damage >= 10000000 THEN 2
    ELSE IF damage >= 1000000 THEN 1
    ELSE 0

\* The casualty scoring of calculate_severity_level, before the fatality
\* weight.
raw_casualty_score(fatalities, injuries) ==
    LET total_casualties == fatalities + injuries
    IN  IF total_casualties >= 10 THEN 3
        ELSE IF total_casualties >= 3 THEN 2
        ELSE IF total_casualties >= 1 THEN 1
        ELSE 0

casualty_score_NoFatalityWeight(fatalities, injuries) ==
    raw_casualty_score(fatalities, injuries)

casualty_score_FatalityOverrides(fatalities, injuries) ==
    IF fatalities > 0 THEN 2
    ELSE raw_casualty_score(fatalities, injuries)

\* The casualty score with the fatality weight applied.
casualty_score(fatalities, injuries) ==
    IF fatalities > 0
    THEN Max2(raw_casualty_score(fatalities, injuries), 2)
    ELSE raw_casualty_score(fatalities, injuries)

calculate_severity_level_MinScore(damage, fatalities, injuries) ==
    LET min_score == IF damage_score(damage) <= casualty_score(fatalities, injuries)
                     THEN damage_score(damage)
                     ELSE casualty_score(fatalities, injuries)
    IN  IF min_score >= 3 THEN "High"
        ELSE IF min_score >= 2 THEN "Medium"
        ELSE "Low"

calculate_severity_level(damage, fatalities, injuries) ==
    LET max_score == Max2(damage_score(damage),
                          casualty_score(fatalities, injuries))
    IN  IF max_score >= 3 THEN "High"
        ELSE IF max_score >= 2 THEN "Medium"
        ELSE "Low"

calculate_damage_classification_Exclusive(damage) ==
    IF damage > 50000000 THEN "Catastrophic"
    ELSE IF damage > 10000000 THEN "Major"
    ELSE IF damage > 1000000 THEN "Moderate"
    ELSE "Minor"

calculate_damage_classification(damage) ==
    IF damage >= 50000000 THEN "Catastrophic"
    ELSE IF damage >= 10000000 THEN "Major"
    ELSE IF damage >= 1000000 THEN "Moderate"
    ELSE "Minor"

(***************************************************************************)
(* SpecSeverity: the calculator called once on an input drawn from the     *)
(* bounded non-negative domain.                                            *)
(***************************************************************************)
SeverityInputs ==
    [damage : LossSamples, fatalities : 0..MaxFatalities,
     injuries : 0..MaxInjuries]

\* The dashboard before its script has run: nothing cached, nothing rendered.
AppIdle ==
    /\ cache_events = [hit |-> FALSE, value |-> <<>>]
    /\ cache_counties = [hit |-> FALSE, value |-> <<>>]
    /\ flood_df = <<>>
    /\ county_data = <<>>
    /\ filtered_df = <<>>
    /\ sel = <<>>
    /\ display = "not run"
    /\ metrics = NoMetrics
    /\ calls = {}
    /\ sessions = <<>>

InitSeverity ==
    /\ fn = "none"
    /\ args \in SeverityInputs
    /\ ret = None
    /\ AppIdle

CallSeverityLevel ==
    /\ fn = "none"
    /\ fn' = "calculate_severity_level"
    /\ ret' = calculate_severity_level(args.damage, args.fatalities,
                                        args.injuries)
    /\ UNCHANGED <<args, appVars>>

CallDamageClassification ==
    /\ fn = "none"
    /\ fn' = "calculate_damage_classification"
    /\ ret' = calculate_damage_classification(args.damage)
    /\ UNCHANGED <<args, appVars>>

NextSeverity == CallSeverityLevel \/ CallDamageClassification

SpecSeverity == InitSeverity /\ [][NextSeverity]_vars

SeverityCalled == fn = "calculate_severity_level"
DamageClassCalled == fn = "calculate_damage_classification"
TotalCasualties == args.fatalities + args.injuries

\* C1: with fatalities > 0 (and non-negative loss and injuries),
\* calculate_severity_level returns Medium or High, never Low.
C1_FatalityAtLeastMedium ==
    (SeverityCalled /\ args.fatalities > 0) => ret \in {"Medium", "High"}

C1_Witness ==
    /\ SeverityCalled
    /\ args.fatalities = 1 /\ args.injuries = 0 /\ args.damage = 0
    /\ ret = "Medium"

\* The reference classification C2 states.
ReferenceSeverity(loss, fatalities, injuries) ==
    IF loss >= 50000000 \/ fatalities + injuries >= 10 THEN "High"
    ELSE IF loss >= 10000000 \/ fatalities + injuries >= 3 \/ fatalities > 0
         THEN "Medium"
    ELSE "Low"

C3_ModerateLossIsMedium ==
    (/\ SeverityCalled
     /\ args.damage >= 1000000 /\ args.damage < 10000000
     /\ args.fatalities = 0 /\ args.injuries = 0) => ret = "Medium"

\* C4: loss > 10M, or total casualties > 10, or at least 2 fatalities, is
\* classified High.
C4_DocumentedHigh ==
    (/\ SeverityCalled
     /\ \/ args.damage > 10000000
        \/ TotalCasualties > 10
        \/ args.fatalities >= 2) => ret = "High"

\* C5: Low is returned only for loss < 1M and zero total casualties.
C5_LowOnlyBelow1MNoCasualties ==
    (SeverityCalled /\ ret = "Low") =>
        (args.damage < 1000000 /\ TotalCasualties = 0)

MaxLen == 5
MaxVal == 5

pair_step_TiesCount(a, b) ==
    IF b >= a THEN 1
    ELSE IF b < a THEN -1
    ELSE 0

\* The body of the double loop for one pair (data[i], data[j]), i < j.
pair_step(a, b) ==
    IF b > a THEN 1
    ELSE IF b < a THEN -1
    ELSE 0

RECURSIVE mk_inner_loop(_, _, _, _)
\* for j in range(i+1, n), entered with S (indices here are 1-based).
mk_inner_loop(data, i, j, S) ==
    IF j > Len(data) THEN S
    ELSE mk_inner_loop(data, i, j + 1, S + pair_step(data[i], data[j]))

RECURSIVE mk_outer_loop(_, _, _)
\* for i in range(n-1), entered with S.
mk_outer_loop(data, i, S) ==
    IF i > Len(data) - 1 THEN S
    ELSE mk_outer_loop(data, i + 1, mk_inner_loop(data, i, i + 1, S))

mk_S(data) == mk_outer_loop(data, 1, 0)

\* 18 * var_s.
mk_var18(n) == n * (n - 1) * (2 * n + 5)

ZeroZ == [num |-> 0, var18 |-> 18]

mk_Z_AlwaysDivides(S, var18) ==
    IF S > 0 THEN [num |-> S - 1, var18 |-> var18]
    ELSE IF S < 0 THEN [num |-> S + 1, var18 |-> var18]
    ELSE [num |-> S, var18 |-> var18]

mk_Z_NoContinuity(S, var18) ==
    IF S > 0 THEN [num |-> S, var18 |-> var18]
    ELSE IF S < 0 THEN [num |-> S, var18 |-> var18]
    ELSE ZeroZ

mk_Z_OneSidedContinuity(S, var18) ==
    IF S > 0 THEN [num |-> S - 1, var18 |-> var18]
    ELSE IF S < 0 THEN [num |-> S, var18 |-> var18]
    ELSE ZeroZ

mk_Z(S, var18) ==
    IF S > 0 THEN [num |-> S - 1, var18 |-> var18]
    ELSE IF S < 0 THEN [num |-> S + 1, var18 |-> var18]
    ELSE ZeroZ

Abs(x) == IF x < 0 THEN -x ELSE x

mk_p_value(Z) == [abs_num |-> Abs(Z.num), var18 |-> Z.var18]

\* p < 0.05  <=>  |Z| > norm.ppf(0.975) = 1.9599639...  <=>
\* Z^2 = abs_num^2 * 18 / var18 > 3.8414588...; compared in units of 10^-5
\* (no attainable Z^2 for n <= 8 lies between 3.8414588 and 3.84146).
p_below_alpha(p) ==
    p.abs_num * p.abs_num * 18 * 100000 > 384146 * p.var18

mk_trend(S, p_value) ==
    IF p_below_alpha(p_value)
    THEN IF S > 0 THEN "Increasing" ELSE "Decreasing"
    ELSE "No significant trend"

mann_kendall_trend_test(data) ==
    LET n == Len(data)
        S == mk_S(data)
        var18 == mk_var18(n)
        Z == mk_Z(S, var18)
        p_value == mk_p_value(Z)
    IN  [S |-> S, Z |-> Z, p_value |-> p_value, trend |-> mk_trend(S, p_value)]

(***************************************************************************)
(* SpecMK: mann_kendall_trend_test called once on a bounded series.        *)
(***************************************************************************)
SeriesInputs == UNION {[1..n -> 1..MaxVal] : n \in 0..MaxLen}

InitMK ==
    /\ fn = "none"
    /\ args \in SeriesInputs
    /\ ret = None
    /\ AppIdle

CallMannKendall ==
    /\ fn = "none"
    /\ fn' = "mann_kendall_trend_test"
    /\ ret' = mann_kendall_trend_test(args)
    /\ UNCHANGED <<args, appVars>>

NextMK == CallMannKendall

SpecMK == InitMK /\ [][NextMK]_vars

MKCalled == fn = "mann_kendall_trend_test"

IndexPairs == {ij \in (1..Len(args)) \X (1..Len(args)) : ij[1] < ij[2]}
RisingPairs == {ij \in IndexPairs : args[ij[2]] > args[ij[1]]}
FallingPairs == {ij \in IndexPairs : args[ij[2]] < args[ij[1]]}
StrictlyIncreasing == \A k \in 1..(Len(args) - 1) : args[k] < args[k + 1]
StrictlyDecreasing == \A k \in 1..(Len(args) - 1) : args[k] > args[k + 1]
ConstantSeries == \A k \in 1..(Len(args) - 1) : args[k] = args[k + 1]

\* C9: S = #{i<j : data[j] > data[i]} - #{i<j : data[j] < data[i]}, ties
\* contributing 0; a strictly increasing series of length 5 gives S = 10, a
\* strictly decreasing one S = -10, a constant one S = 0.
C9_SIsPairCount ==
    MKCalled =>
        /\ ret.S = Cardinality(RisingPairs) - Cardinality(FallingPairs)
        /\ (Len(args) = 5 /\ StrictlyIncreasing => ret.S = 10)
        /\ (Len(args) = 5 /\ StrictlyDecreasing => ret.S = -10)
        /\ (ConstantSeries => ret.S = 0)

C9_Witness ==
    /\ MKCalled
    /\ args = <<1, 3, 3, 2, 5>>
    /\ ret.S = 5

\* |Z| > 1.9599639..., for Z = num / sqrt(var18 / 18), as C10's reference.
RefSignificant(num, var18) == num * num * 18 * 100000 > 384146 * var18

\* C10: variance n(n-1)(2n+5)/18; Z = (S-1)/sqrt(var) if S > 0,
\* (S+1)/sqrt(var) if S < 0, else 0; trend is Increasing iff p < 0.05 and
\* S > 0, Decreasing iff p < 0.05 and S < 0, otherwise "No significant
\* trend"; [1,2,3,4,5] is Increasing with p < 0.05, [5,4,3,2,1] Decreasing,
\* [3,3,3,3,3] has Z = 0 and no significant trend.
C10_ZAndTrend ==
    MKCalled =>
        LET n == Len(args)
            v18 == n * (n - 1) * (2 * n + 5)
            sig == p_below_alpha(ret.p_value)
        IN  /\ ret.S > 0 => ret.Z = [num |-> ret.S - 1, var18 |-> v18]
            /\ ret.S < 0 => ret.Z = [num |-> ret.S + 1, var18 |-> v18]
            /\ ret.S = 0 => ret.Z.num = 0
            /\ sig <=> RefSignificant(ret.Z.num, ret.Z.var18)
            /\ (ret.trend = "Increasing") <=> (sig /\ ret.S > 0)
            /\ (ret.trend = "Decreasing") <=> (sig /\ ret.S < 0)
            /\ (ret.trend = "No significant trend") <=>
                   ~((sig /\ ret.S > 0) \/ (sig /\ ret.S < 0))
            /\ (args = <<1, 2, 3, 4, 5>> =>
                    ret.trend = "Increasing" /\ sig)
            /\ (args = <<5, 4, 3, 2, 1>> => ret.trend = "Decreasing")
            /\ (args = <<3, 3, 3, 3, 3>> =>
                    ret.Z.num = 0 /\ ret.trend = "No significant trend")

C10_Witness ==
    /\ MKCalled
    /\ args = <<5, 4, 3, 2, 1>>
    /\ ret.S = -10
    /\ ret.Z = [num |-> -9, var18 |-> 300]
    /\ ret.trend = "Decreasing"

(***************************************************************************)
(* Mann-Kendall on fewer than two observations                             *)
(***************************************************************************)
\* Z is a quotient by the square root of a zero variance.
DividedByZeroVariance(Z) == Z.var18 = 0

\* C20 as stated: for n = 0 or n = 1 the test divides by the zero
\* variance, and the division-by-zero / NaN value is the returned Z and
\* p-value.
C20_ShortSeriesDividesByZero ==
    (MKCalled /\ Len(args) < 2) =>
        /\ DividedByZeroVariance(ret.Z)
        /\ DividedByZeroVariance(ret.p_value)

\* C20, amended: for n = 0 or n = 1 the variance is zero but it is never
\* divided by: no pair exists, so S = 0 and Z is set to 0; the call returns
\* S = 0, Z = 0, p-value 1 (not below 0.05) and "No significant trend", and
\* no division-by-zero / NaN value reaches Z, the p-value or the strings
\* built from them.
C20_ShortSeriesNoDivision ==
    (MKCalled /\ Len(args) < 2) =>
        /\ mk_var18(Len(args)) = 0
        /\ ret.S = 0
        /\ ret.Z.num = 0
        /\ ~DividedByZeroVariance(ret.Z)
        /\ ret.p_value.abs_num = 0
        /\ ~DividedByZeroVariance(ret.p_value)
        /\ ~p_below_alpha(ret.p_value)
        /\ ret.trend = "No significant trend"

C20_Witness ==
    /\ MKCalled
    /\ args = <<3>>
    /\ ret = [S |-> 0, Z |-> [num |-> 0, var18 |-> 18],
              p_value |-> [abs_num |-> 0, var18 |-> 18],
              trend |-> "No significant trend"]

(***************************************************************************)
(* The dashboard                                                           *)
(*                                                                         *)
(* A DataFrame is a sequence of row records.  Frames live in a heap (a     *)
(* sequence of frames, a reference being an index) for the length of one   *)
(* script run, so that a write through one name is seen through every      *)
(* other name of the same frame.  Frame 1 is the object st.cache_data      *)
(* keeps.  Of each event and county only the columns the filters and the   *)
(* derived metrics read are kept; rain_inches is in tenths of an inch.     *)
(***************************************************************************)

\* One literal of the flood_events list.  The date is the text
\* 'YYYY-MM-DD', kept as its three fields.
RawEvent(ymd, county, type, fatalities, injuries, damage_usd, rain10, text) ==
    [date |-> [kind |-> "str", text |-> ymd], county |-> county,
     type |-> type, fatalities |-> fatalities, injuries |-> injuries,
     damage_usd |-> damage_usd, rain_inches |-> rain10,
     tribal_impact |-> text]

flood_events ==
    <<
        RawEvent(<<2025, 4, 30>>, "Oklahoma", "Flash Flood", 2, 5, 15000000, 125,
                 "Citizen Potawatomi Nation facilities flooded"),
        RawEvent(<<2025, 5, 2>>, "Grady", "Dam Break", 0, 0, 2000000, 80,
                 "No direct tribal impact"),
        RawEvent(<<2024, 4, 27>>, "Oklahoma", "Flash Flood", 1, 15, 25000000, 68,
                 "Absentee Shawnee tribal facilities damaged"),
        RawEvent(<<2024, 6, 15>>, "Tulsa", "Flash Flood", 0, 3, 8500000, 52,
                 "Limited impact on Creek Nation facilities"),
        RawEvent(<<2023, 5, 20>>, "Creek", "Flash Flood", 0, 2, 6200000, 48,
                 "Muscogee Creek Nation community facilities damaged"),
        RawEvent(<<2023, 7, 12>>, "Canadian", "Flash Flood", 0, 1, 4100000, 39,
                 "Cheyenne-Arapaho agricultural lands affected"),
        RawEvent(<<2022, 5, 15>>, "Cleveland", "Flash Flood", 0, 4, 7800000, 45,
                 "No significant tribal impact"),
        RawEvent(<<2022, 8, 22>>, "Muskogee", "Flash Flood", 1, 3, 9300000, 58,
                 "Muscogee Creek Nation headquarters affected"),
        RawEvent(<<2021, 4, 28>>, "Oklahoma", "Flash Flood", 1, 8, 12400000, 62,
                 "Limited tribal impact"),
        RawEvent(<<2021, 6, 10>>, "Payne", "Flash Flood", 0, 2, 3800000, 41,
                 "No significant tribal impact"),
        RawEvent(<<2020, 5, 25>>, "Tulsa", "River Flood", 0, 2, 18600000, 84,
                 "Creek Nation riverside properties affected"),
        RawEvent(<<2020, 7, 18>>, "Canadian", "Flash Flood", 0, 0, 2900000, 32,
                 "Tribal agricultural operations affected"),
        RawEvent(<<2019, 5, 22>>, "Tulsa", "River Flood", 0, 3, 63500000, 152,
                 "Muscogee Creek Nation riverside facilities evacuated"),
        RawEvent(<<2019, 5, 23>>, "Muskogee", "River Flood", 0, 2, 45000000, 128,
                 "Muscogee Creek Nation headquarters building severely flooded"),
        RawEvent(<<2019, 6, 2>>, "Creek", "River Flood", 0, 1, 28700000, 101,
                 "Muscogee Creek agricultural lands flooded"),
        RawEvent(<<2018, 8, 15>>, "Oklahoma", "Flash Flood", 0, 6, 14200000, 59,
                 "Limited tribal impact"),
        RawEvent(<<2017, 5, 10>>, "Cleveland", "Flash Flood", 0, 3, 8900000, 47,
                 "No significant tribal impact"),
        RawEvent(<<2016, 6, 25>>, "Grady", "Flash Flood", 0, 1, 5600000, 42,
                 "Tribal roadway access affected"),
        RawEvent(<<2015, 5, 25>>, "Oklahoma", "Flash Flood", 2, 12, 18000000, 75,
                 "Limited tribal impact"),
        RawEvent(<<2015, 10, 3>>, "Tulsa", "Flash Flood", 0, 2, 6800000, 38,
                 "Creek Nation facilities minor impact")
    >>

counties_data ==
    "Oklahoma" :> [full_name |-> "Oklahoma County", population |-> 796292, elevation_ft |-> 1200,
        severity_level |-> "High"] @@
    "Tulsa" :> [full_name |-> "Tulsa County", population |-> 669279, elevation_ft |-> 700,
        severity_level |-> "High"] @@
    "Cleveland" :> [full_name |-> "Cleveland County", population |-> 295528, elevation_ft |-> 1100,
        severity_level |-> "Medium"] @@
    "Canadian" :> [full_name |-> "Canadian County", population |-> 154405, elevation_ft |-> 1300,
        severity_level |-> "Medium"] @@
    "Creek" :> [full_name |-> "Creek County", population |-> 71754, elevation_ft |-> 800,
        severity_level |-> "High"] @@
    "Muskogee" :> [full_name |-> "Muskogee County", population |-> 66339, elevation_ft |-> 600,
        severity_level |-> "High"] @@
    "Grady" :> [full_name |-> "Grady County", population |-> 54795, elevation_ft |-> 1150,
        severity_level |-> "Medium"] @@
    "Payne" :> [full_name |-> "Payne County", population |-> 81912, elevation_ft |-> 900,
        severity_level |-> "Low"]

load_oklahoma_counties_NoPayne ==
    [c \in DOMAIN counties_data \ {"Payne"} |-> counties_data[c]]

load_oklahoma_counties == counties_data

\* A list, Series or frame holds its values: the sequence f, computed once.
Values(f) == SubSeq(f, 1, Len(f))

\* The values of a sequence, its least and its greatest.
SeqRange(q) == {q[k] : k \in 1..Len(q)}
MinOf(S) == CHOOSE x \in S : \A y \in S : x <= y
MaxOf(S) == CHOOSE x \in S : \A y \in S : x >= y

\* dict/row item assignment r[k] = v for a key that may be new.
SetItem(r, k, v) == (k :> v) @@ r

annotate_event_SwappedCasualties(event) ==
    SetItem(SetItem(event, "severity_level",
                    calculate_severity_level(event.damage_usd, event.injuries,
                                             event.fatalities)),
            "damage_classification",
            calculate_damage_classification(event.damage_usd))

\* The body of load_oklahoma_flood_data's loop over flood_events.
annotate_event(event) ==
    SetItem(SetItem(event, "severity_level",
                    calculate_severity_level(event.damage_usd, event.fatalities,
                                             event.injuries)),
            "damage_classification",
            calculate_damage_classification(event.damage_usd))

load_oklahoma_flood_data ==
    Values([k \in 1..Len(flood_events) |-> annotate_event(flood_events[k])])

\* @st.cache_data: the function runs on a miss and its value is stored.
cache_lookup(cache, value) ==
    IF cache.hit THEN cache ELSE [hit |-> TRUE, value |-> value]

(***************************************************************************)
(* pandas operations, on a heap h and a frame reference r.                 *)
(***************************************************************************)
\* df.copy(): a new frame with the same rows.
df_copy(h, r) == [heap |-> Append(h, h[r]), ref |-> Len(h) + 1]

\* df[col]: the column as a Series, one value per row.
column(h, r, col) == Values([k \in 1..Len(h[r]) |-> h[r][k][col]])

RECURSIVE rows_where(_, _, _)
\* The rows k, k+1, ... of a frame whose mask value is True, in order.
rows_where(frame, mask, k) ==
    IF k > Len(frame) THEN <<>>
    ELSE IF mask[k] THEN <<frame[k]>> \o rows_where(frame, mask, k + 1)
    ELSE rows_where(frame, mask, k + 1)

\* df[mask]: boolean indexing builds a new frame of the rows whose mask
\* value is True.
df_select(h, r, mask) ==
    [heap |-> Append(h, rows_where(h[r], mask, 1)), ref |-> Len(h) + 1]

\* df[col] = values, written into the frame r refers to.
df_setcol(h, r, col, values) ==
    [h EXCEPT ![r] =
        Values([k \in 1..Len(h[r]) |-> SetItem(h[r][k], col, values[k])])]

RECURSIVE sorted_keys(_)
\* The group keys of a groupby, in ascending order.
sorted_keys(S) ==
    IF S = {} THEN <<>> ELSE <<MinOf(S)>> \o sorted_keys(S \ {MinOf(S)})

RECURSIVE group_sum(_, _, _, _, _)
\* The sum of value_col over the rows k, k+1, ... whose key column is key.
group_sum(df, k, by, key, value_col) ==
    IF k > Len(df) THEN 0
    ELSE (IF df[k][by] = key THEN df[k][value_col] ELSE 0)
         + group_sum(df, k + 1, by, key, value_col)

\* One row of df.groupby(by)[value_col].sum().reset_index().
group_row(df, by, key, value_col) ==
    (by :> key) @@ (value_col :> group_sum(df, 1, by, key, value_col))

\* df.groupby(by)[value_col].sum().reset_index()
groupby_sum(df, by, value_col) ==
    Values([k \in 1..Cardinality({row[by] : row \in SeqRange(df)}) |->
        group_row(df, by, sorted_keys({row[by] : row \in SeqRange(df)})[k],
                  value_col)])

\* df.groupby(by).size().reset_index(name='size')
groupby_size(df, by) ==
    Values([k \in 1..Cardinality({row[by] : row \in SeqRange(df)}) |->
        (by :> sorted_keys({row[by] : row \in SeqRange(df)})[k])
        @@ ("size" :> Cardinality({j \in 1..Len(df) :
                df[j][by] = sorted_keys({row[by] : row \in SeqRange(df)})[k]}))])

RECURSIVE sum_range(_, _, _)
\* series[lo] + ... + series[hi]
sum_range(series, lo, hi) ==
    IF lo > hi THEN 0 ELSE series[lo] + sum_range(series, lo + 1, hi)

\* pd.to_datetime on one cell: parses the text, leaves a timestamp alone.
to_datetime(d) ==
    IF d.kind = "str"
    THEN [kind |-> "datetime", year |-> d.text[1], month |-> d.text[2],
          day |-> d.text[3]]
    ELSE d

\* Series.str.contains('Nation|Tribe', na=False) on the table's texts.
NationOrTribeTexts ==
    {"Citizen Potawatomi Nation facilities flooded",
     "Creek Nation facilities minor impact",
     "Creek Nation riverside properties affected",
     "Limited impact on Creek Nation facilities",
     "Muscogee Creek Nation community facilities damaged",
     "Muscogee Creek Nation headquarters affected",
     "Muscogee Creek Nation headquarters building severely flooded",
     "Muscogee Creek Nation riverside facilities evacuated"}

contains_nation_or_tribe(text) == text \in NationOrTribeTexts

season_of(month) ==
    IF month \in {12, 1, 2} THEN "Winter"
    ELSE IF month \in {3, 4, 5} THEN "Spring"
    ELSE IF month \in {6, 7, 8} THEN "Summer"
    ELSE "Fall"

cached_frame_SameObject(h) == [heap |-> h, ref |-> 1]

\* What a @st.cache_data function hands its caller: a copy of the stored
\* value (frame 1), never the stored object.
cached_frame(h) == df_copy(h, 1)

\* pd.to_datetime(Series) and Series.dt.year, elementwise.
series_to_datetime(series) ==
    Values([k \in DOMAIN series |-> to_datetime(series[k])])
dt_year(series) == Values([k \in DOMAIN series |-> series[k].year])

\* Series.dt.month and Series.map(season), elementwise.
dt_month(series) == Values([k \in DOMAIN series |-> series[k].month])
map_season(series) == Values([k \in DOMAIN series |-> season_of(series[k])])

\* Series + Series, elementwise.
series_add(a, b) == Values([k \in DOMAIN a |-> a[k] + b[k]])

\* df['month'] = df['date'].dt.month
set_month(h, df) == df_setcol(h, df, "month", dt_month(column(h, df, "date")))

\* df['season'] = df['month'].map({...})
set_season(h, df) ==
    df_setcol(h, df, "season", map_season(column(h, df, "month")))

\* create_advanced_temporal_analysis: the columns it writes into df.
create_advanced_temporal_analysis(h, df) == set_season(set_month(h, df), df)

\* create_advanced_impact_analysis: the column it writes into df.
create_advanced_impact_analysis(h, df) ==
    df_setcol(h, df, "total_casualties",
              series_add(column(h, df, "fatalities"), column(h, df, "injuries")))

(***************************************************************************)
(* main(): one run of the script for the widget values s.                  *)
(***************************************************************************)
\* Series == value, elementwise.
series_eq(series, value) ==
    Values([k \in DOMAIN series |-> series[k] = value])

series_between_Exclusive(series, lo, hi) ==
    Values([k \in DOMAIN series |-> series[k] > lo /\ series[k] < hi])

\* (Series >= lo) & (Series <= hi), elementwise.
series_between(series, lo, hi) ==
    Values([k \in DOMAIN series |-> series[k] >= lo /\ series[k] <= hi])

\* Series >= value, elementwise.
series_ge(series, value) ==
    Values([k \in DOMAIN series |-> series[k] >= value])

\* Series.str.contains('Nation|Tribe', na=False), elementwise.
series_contains_nation_or_tribe(series) ==
    Values([k \in DOMAIN series |-> contains_nation_or_tribe(series[k])])

\* ~mask, elementwise.
mask_not(mask) == Values([k \in DOMAIN mask |-> ~mask[k]])

\* The filters of main, in its order; hr is filtered_df so far (the heap
\* and the frame's reference).
filter_county(hr, s) ==
    IF s.county # "All Counties"
    THEN df_select(hr.heap, hr.ref,
                   series_eq(column(hr.heap, hr.ref, "county"), s.county))
    ELSE hr

filter_severity(hr, s) ==
    IF s.severity # "All Severities"
    THEN df_select(hr.heap, hr.ref,
                   series_eq(column(hr.heap, hr.ref, "severity_level"),
                             s.severity))
    ELSE hr

filter_damage_class(hr, s) ==
    IF s.damage_class # "All Classifications"
    THEN df_select(hr.heap, hr.ref,
                   series_eq(column(hr.heap, hr.ref, "damage_classification"),
                             s.damage_class))
    ELSE hr

filter_year_range(hr, s) ==
    df_select(hr.heap, hr.ref,
              series_between(column(hr.heap, hr.ref, "year"),
                             s.year_range[1], s.year_range[2]))

filter_type_SkipsFirstRow(hr, s) ==
    IF s.type # "All Types"
    THEN df_select(hr.heap, hr.ref,
                   Values([k \in 1..Len(hr.heap[hr.ref]) |->
                              k > 1 /\ hr.heap[hr.ref][k].type = s.type]))
    ELSE hr

filter_type(hr, s) ==
    IF s.type # "All Types"
    THEN df_select(hr.heap, hr.ref,
                   series_eq(column(hr.heap, hr.ref, "type"), s.type))
    ELSE hr

filter_min_damage(hr, s) ==
    IF s.min_damage > 0
    THEN df_select(hr.heap, hr.ref,
                   series_ge(column(hr.heap, hr.ref, "damage_usd"),
                             s.min_damage))
    ELSE hr

filter_tribal(hr, s) ==
    IF s.tribal_filter = "Tribal Impact Events Only"
    THEN df_select(hr.heap, hr.ref,
                   series_contains_nation_or_tribe(
                       column(hr.heap, hr.ref, "tribal_impact")))
    ELSE IF s.tribal_filter = "Non-Tribal Events Only"
    THEN df_select(hr.heap, hr.ref,
                   mask_not(series_contains_nation_or_tribe(
                       column(hr.heap, hr.ref, "tribal_impact"))))
    ELSE hr

\* "Apply comprehensive filters": filtered_df from flood_df.
apply_filters(h, flood, s) ==
    filter_tribal(
      filter_min_damage(
        filter_type(
          filter_year_range(
            filter_damage_class(
              filter_severity(
                filter_county(df_copy(h, flood), s), s), s), s), s), s), s)

main_load_StoredObject(cache) == [heap |-> <<cache.value>>, ref |-> 1]

\* flood_df = load_oklahoma_flood_data(): the cached value, handed over by
\* st.cache_data.
main_load(cache) == cached_frame(<<cache.value>>)

\* flood_df['date'] = pd.to_datetime(flood_df['date'])
set_date(h, df) ==
    df_setcol(h, df, "date", series_to_datetime(column(h, df, "date")))

\* flood_df['year'] = flood_df['date'].dt.year
set_year(h, df) == df_setcol(h, df, "year", dt_year(column(h, df, "date")))

\* The analysis tabs every run with events opens (tab1, tab3).
main_tabs(h, df) ==
    create_advanced_impact_analysis(create_advanced_temporal_analysis(h, df), df)

\* (mask) & (mask), elementwise.
mask_and(a, b) == Values([k \in DOMAIN a |-> a[k] /\ b[k]])

\* len(df[mask])
count_where(frame, mask) == Len(rows_where(frame, mask, 1))

avg_return_period_Inclusive(df, year_range) ==
    [num |-> Len(df), den |-> year_range[2] - year_range[1] + 1]

\* The 'Annual Frequency' metric: avg_return_period.
avg_return_period(df, year_range) ==
    IF year_range[2] > year_range[1]
    THEN [num |-> Len(df), den |-> year_range[2] - year_range[1] + 1]
    ELSE [num |-> 0, den |-> 1]

\* The county detail panel, computed from the frame it is given.
county_panel(frame, cd, county) ==
    IF county # "All Counties"
    THEN [shown |-> TRUE,
          full_name |-> cd[county].full_name,
          county_events |->
              count_where(frame, series_eq(column(<<frame>>, 1, "county"), county)),
          county_damage |->
              sum_range(column(<<rows_where(frame,
                                   series_eq(column(<<frame>>, 1, "county"), county),
                                   1)>>, 1, "damage_usd"),
                        1,
                        count_where(frame,
                                    series_eq(column(<<frame>>, 1, "county"), county))),
          high_sev_county |->
              count_where(frame,
                  mask_and(series_eq(column(<<frame>>, 1, "county"), county),
                           series_eq(column(<<frame>>, 1, "severity_level"),
                                     "High")))]
    ELSE NoPanel

\* create_enhanced_flood_map: the events that get a marker, by county.
event_markers(cd, frame) ==
    column(<<rows_where(frame,
                        Values([k \in 1..Len(frame) |->
                                   frame[k].county \in DOMAIN cd]), 1)>>,
           1, "county")

\* The end of the run: what the names and the caches hold, and what the
\* run has shown.
main_end(h, flood, filtered, cc, shown) ==
    [cache_events |-> [hit |-> TRUE, value |-> h[1]],
     cache_counties |-> cc,
     flood_df |-> h[flood],
     county_data |-> cc.value,
     filtered_df |-> h[filtered],
     display |-> shown.display,
     calls |-> shown.calls]

\* What the branch with events invokes on filtered_df: the summary metrics,
\* the map, and the tabs of the mode.
shown_data(s) ==
    [display |-> "data",
     calls |->
        {"summary_metrics", "create_enhanced_flood_map",
         "create_advanced_temporal_analysis",
         "create_advanced_spatial_analysis",
         "create_advanced_impact_analysis"}
        \cup (IF s.research_mode
              THEN {"create_probability_risk_analysis",
                    "create_comparative_analysis",
                    "create_tribal_impact_analysis",
                    "create_research_documentation_tab", "to_csv"}
              ELSE {"create_basic_event_records"})]

\* What the else branch shows.
shown_empty == [display |-> "empty", calls |-> {"st.warning", "st.info"}]

main_display_NoEmptyCheck(f, flood, cc, s) ==
    main_end(main_tabs(f.heap, f.ref), flood, f.ref, cc, shown_data(s))

\* "if not filtered_df.empty: ... else: st.warning(...)".
main_display(f, flood, cc, s) ==
    IF Len(f.heap[f.ref]) > 0
    THEN main_end(main_tabs(f.heap, f.ref), flood, f.ref, cc, shown_data(s))
    ELSE main_end(f.heap, flood, f.ref, cc, shown_empty)

\* main() from the date conversion on, fl being flood_df as loaded.
main_body(fl, cc, s) ==
    main_display(apply_filters(set_year(set_date(fl.heap, fl.ref), fl.ref),
                               fl.ref, s),
                 fl.ref, cc, s)

main_metrics_AnnualFromFullTable(flood, filtered, cd, s) ==
    [annual_counts |-> groupby_size(flood, "year"),
     annual_damages |-> groupby_sum(flood, "year", "damage_usd"),
     annual_frequency |-> avg_return_period(filtered, s.year_range),
     county_panel |-> county_panel(flood, cd, s.county),
     map_markers |-> event_markers(cd, filtered)]

main_metrics_PanelFromFiltered(flood, filtered, cd, s) ==
    [annual_counts |-> groupby_size(filtered, "year"),
     annual_damages |-> groupby_sum(filtered, "year", "damage_usd"),
     annual_frequency |-> avg_return_period(filtered, s.year_range),
     county_panel |-> county_panel(filtered, cd, s.county),
     map_markers |-> event_markers(cd, filtered)]

\* The figures the branch with events displays from the event table and
\* the filtered view: the annual aggregates of the temporal analysis, the
\* 'Annual Frequency' metric, the county detail panel and the map's event
\* markers.
main_metrics(flood, filtered, cd, s) ==
    [annual_counts |-> groupby_size(filtered, "year"),
     annual_damages |-> groupby_sum(filtered, "year", "damage_usd"),
     annual_frequency |-> avg_return_period(filtered, s.year_range),
     county_panel |-> county_panel(flood, cd, s.county),
     map_markers |-> event_markers(cd, filtered)]

\* What a run leaves displayed: the figures of the branch with events, or
\* none after the warning of the branch without.
displayed_metrics(r, s) ==
    IF r.display = "data"
    THEN main_metrics(r.flood_df, r.filtered_df, r.county_data, s)
    ELSE NoMetrics

\* The whole of main() for the widget values s.
main_run(cacheE, cacheC, s) ==
    main_body(main_load(cache_lookup(cacheE, load_oklahoma_flood_data)),
              cache_lookup(cacheC, load_oklahoma_counties), s)

(***************************************************************************)
(* The sidebar widgets: their options and defaults.                        *)
(***************************************************************************)
\* Positions of the year slider and values of the minimum-damage input the
\* model tries (the slider offers every year of the table, the input every
\* integer up to the largest damage).
YearStops == {2015, 2019, 2020, 2025}
MinDamageSamples == {0, 5000000, 10000000}

county_options(cd) == {"All Counties"} \cup DOMAIN cd
severity_options == {"All Severities", "High", "Medium", "Low"}
damage_options ==
    {"All Classifications", "Catastrophic", "Major", "Moderate", "Minor"}
\* The year of a row: the year column once main has added it.
year_of(row) == to_datetime(row.date).year
min_year(df) == MinOf({year_of(row) : row \in SeqRange(df)})
max_year(df) == MaxOf({year_of(row) : row \in SeqRange(df)})
year_range_options(df) ==
    {yr \in YearStops \X YearStops :
        min_year(df) <= yr[1] /\ yr[1] <= yr[2] /\ yr[2] <= max_year(df)}
flood_types(df) == {"All Types"} \cup {row.type : row \in SeqRange(df)}
min_damage_options(df) ==
    {d \in MinDamageSamples :
        d <= MaxOf({row.damage_usd : row \in SeqRange(df)})}
tribal_options ==
    {"All Events", "Tribal Impact Events Only", "Non-Tribal Events Only"}

\* The widgets' values on a session's first run; the slider starts at the
\* table's first and last year.
default_selections ==
    [county |-> "All Counties", severity |-> "All Severities",
     damage_class |-> "All Classifications",
     year_range |-> <<min_year(load_oklahoma_flood_data),
                      max_year(load_oklahoma_flood_data)>>,
     type |-> "All Types", min_damage |-> 0, tribal_filter |-> "All Events",
     research_mode |-> TRUE]

\* The number of widgets that are off their default value.
widgets_off_default(s) ==
    Cardinality({k \in DOMAIN s : s[k] # default_selections[k]})

\* A session holds at most this many widgets off their defaults at once.
MaxActiveFilters == 3

(***************************************************************************)
(* Spec: a session opens the page, then changes one widget at a time;      *)
(* every change re-runs main().                                            *)
(***************************************************************************)
\* Streamlit runs the script once, from the top, with the widget values s.
Rerun(s) ==
    /\ widgets_off_default(s) <= MaxActiveFilters
    /\ \E r \in {main_run(cache_events, cache_counties, s)} :
        /\ sel' = s
        /\ cache_events' = r.cache_events
        /\ cache_counties' = r.cache_counties
        /\ flood_df' = r.flood_df
        /\ county_data' = r.county_data
        /\ filtered_df' = r.filtered_df
        /\ display' = r.display
        /\ metrics' = displayed_metrics(r, s)
        /\ calls' = r.calls
        /\ UNCHANGED <<callVars, sessions>>

Init ==
    /\ fn = "none"
    /\ args = <<>>
    /\ ret = None
    /\ AppIdle

OpenPage ==
    /\ display = "not run"
    /\ Rerun(default_selections)

SelectCounty ==
    /\ display # "not run"
    /\ \E c \in county_options(county_data) \ {sel.county} :
           Rerun([sel EXCEPT !.county = c])

SelectSeverity ==
    /\ display # "not run"
    /\ \E v \in severity_options \ {sel.severity} :
           Rerun([sel EXCEPT !.severity = v])

SelectDamageClass ==
    /\ display # "not run"
    /\ \E v \in damage_options \ {sel.damage_class} :
           Rerun([sel EXCEPT !.damage_class = v])

SlideYearRange ==
    /\ display # "not run"
    /\ \E yr \in year_range_options(flood_df) \ {sel.year_range} :
           Rerun([sel EXCEPT !.year_range = yr])

SelectType ==
    /\ display # "not run"
    /\ \E v \in flood_types(flood_df) \ {sel.type} :
           Rerun([sel EXCEPT !.type = v])

InputMinDamage ==
    /\ display # "not run"
    /\ \E d \in min_damage_options(flood_df) \ {sel.min_damage} :
           Rerun([sel EXCEPT !.min_damage = d])

SelectTribalFilter ==
    /\ display # "not run"
    /\ \E v \in tribal_options \ {sel.tribal_filter} :
           Rerun([sel EXCEPT !.tribal_filter = v])

ToggleResearchMode ==
    /\ display # "not run"
    /\ Rerun([sel EXCEPT !.research_mode = ~sel.research_mode])

Next ==
    \/ OpenPage
    \/ SelectCounty
    \/ SelectSeverity
    \/ SelectDamageClass
    \/ SlideYearRange
    \/ SelectType
    \/ InputMinDamage
    \/ SelectTribalFilter
    \/ ToggleResearchMode

Spec == Init /\ [][Next]_vars

PageOpened == display # "not run"

\* The stored tiers of a row are the calculator's values for the row.
TiersMatch(row) ==
    /\ row.severity_level =
           calculate_severity_level(row.damage_usd, row.fatalities,
                                    row.injuries)
    /\ row.damage_classification =
           calculate_damage_classification(row.damage_usd)

\* C7: after load and after any sequence of filter selections, each event's
\* stored severity_level and damage_classification equal
\* calculate_severity_level and calculate_damage_classification applied to
\* that event's (damage_usd, fatalities, injuries).
C7_StoredTiersMatchInputs ==
    PageOpened =>
        /\ \A k \in 1..Len(cache_events.value) : TiersMatch(cache_events.value[k])
        /\ \A k \in 1..Len(flood_df) : TiersMatch(flood_df[k])
        /\ \A k \in 1..Len(filtered_df) : TiersMatch(filtered_df[k])

C7_Witness ==
    /\ display = "data"
    /\ sel.severity = "Low"
    /\ sel.year_range = <<2019, 2025>>
    /\ \E k \in 1..Len(filtered_df) :
           /\ filtered_df[k].injuries = 2
           /\ filtered_df[k].severity_level = "Low"

\* The base table main holds after load: the loaded records with the date
\* text parsed and the year column added (app.py:8504-8507).
BaseTable ==
    [k \in 1..Len(load_oklahoma_flood_data) |->
        LET e == load_oklahoma_flood_data[k]
            d == [kind |-> "datetime", year |-> e.date.text[1],
                  month |-> e.date.text[2], day |-> e.date.text[3]]
        IN  ("year" :> d.year) @@ [e EXCEPT !.date = d]]

\* A row cut down to the columns of the base table.
BaseColumns(row) == [c \in DOMAIN BaseTable[1] |-> row[c]]

\* C8: no user interaction changes the loaded data: after any sequence of
\* selections the cached tables, the base event table and the county table
\* hold exactly the records produced at load time; filtering and analysis
\* touch only the separate filtered view, whose rows are rows of the base
\* table; no event is updated or deleted.
C8_LoadedDataUnchanged ==
    PageOpened =>
        /\ cache_events.value = load_oklahoma_flood_data
        /\ cache_counties.value = load_oklahoma_counties
        /\ county_data = load_oklahoma_counties
        /\ flood_df = BaseTable
        /\ \A k \in 1..Len(filtered_df) :
               \E j \in 1..Len(flood_df) : BaseColumns(filtered_df[k]) = flood_df[j]

C8_Witness ==
    /\ display = "data"
    /\ sel.county = "Tulsa"
    /\ sel.severity = "High"
    /\ Len(filtered_df) = 1
    /\ filtered_df[1].season = "Spring"
    /\ filtered_df[1].total_casualties = 3
    /\ Len(flood_df) = 20

(***************************************************************************)
(* The filtered view and the two display states                            *)
(***************************************************************************)
\* The six selections C16 lists, for one event of the base table.
MatchesListed(row, s) ==
    /\ s.county # "All Counties" => row.county = s.county
    /\ s.severity # "All Severities" => row.severity_level = s.severity
    /\ s.damage_class # "All Classifications" =>
           row.damage_classification = s.damage_class
    /\ s.year_range[1] <= row.year /\ row.year <= s.year_range[2]
    /\ s.type # "All Types" => row.type = s.type
    /\ row.damage_usd >= s.min_damage

\* The tribal-impact selection, for one event.
MatchesTribal(row, s) ==
    /\ s.tribal_filter = "Tribal Impact Events Only" =>
           contains_nation_or_tribe(row.tribal_impact)
    /\ s.tribal_filter = "Non-Tribal Events Only" =>
           ~contains_nation_or_tribe(row.tribal_impact)

\* The events of the filtered view, cut down to the base table's columns.
FilteredEvents == {BaseColumns(filtered_df[k]) : k \in 1..Len(filtered_df)}

\* C16 as stated: the filtered view is exactly the set of loaded events
\* that satisfy the county, severity, damage-classification, year-range,
\* type and minimum-damage selections; none omitted, none added.
C16_FilteredIsListedMatches ==
    PageOpened =>
        FilteredEvents =
            {flood_df[j] : j \in {i \in 1..Len(flood_df) :
                                      MatchesListed(flood_df[i], sel)}}

\* C16, amended: the filtered view is exactly the set of loaded events that
\* satisfy the county, severity, damage-classification, year-range, type
\* and minimum-damage selections and the tribal-impact selection (tribal
\* impact text matching 'Nation|Tribe' for "Tribal Impact Events Only", not
\* matching it for "Non-Tribal Events Only"); no matching event is omitted
\* or repeated, no other event is included, and the events keep the order
\* of the table.
C16_FilteredIsExactlyMatches ==
    PageOpened =>
        /\ FilteredEvents =
               {flood_df[j] : j \in {i \in 1..Len(flood_df) :
                                         /\ MatchesListed(flood_df[i], sel)
                                         /\ MatchesTribal(flood_df[i], sel)}}
        /\ Len(filtered_df) = Cardinality(FilteredEvents)
        /\ \A k \in 1..(Len(filtered_df) - 1) :
               \E i, j \in 1..Len(flood_df) :
                   /\ i < j
                   /\ flood_df[i] = BaseColumns(filtered_df[k])
                   /\ flood_df[j] = BaseColumns(filtered_df[k + 1])

C16_Witness ==
    /\ display = "data"
    /\ sel.county = "Tulsa"
    /\ sel.type = "River Flood"
    /\ sel.tribal_filter = "Tribal Impact Events Only"
    /\ Len(filtered_df) = 2
    /\ filtered_df[1].year = 2020
    /\ filtered_df[2].year = 2019

\* C17: when the selections match no event the run ends in the "no events
\* match" state: the warning is shown and no summary metric, map, analysis
\* tab or export is invoked on the empty set (and, conversely, the warning
\* is shown only then).
C17_EmptyShowsWarningOnly ==
    PageOpened =>
        /\ Len(filtered_df) = 0 =>
               /\ display = "empty"
               /\ calls = {"st.warning", "st.info"}
               /\ calls \cap shown_data(sel).calls = {}
        /\ Len(filtered_df) > 0 =>
               /\ display = "data"
               /\ "st.warning" \notin calls

C17_Witness ==
    /\ display = "empty"
    /\ sel.county = "Payne"
    /\ sel.severity = "High"
    /\ filtered_df = <<>>
    /\ calls = {"st.warning", "st.info"}

(***************************************************************************)
(* Weibull plotting positions                                              *)
(*                                                                         *)
(* A quotient of two integers is kept exact, as the record [num, den].     *)
(***************************************************************************)
\* a / b for integers a and b.
divide(a, b) == [num |-> a, den |-> b]

reciprocal_Identity(q) == q

\* 1 / q.
reciprocal(q) == [num |-> q.den, den |-> q.num]

RECURSIVE np_insert(_, _)
\* x put in its place in an ascending sequence.
np_insert(sorted, x) ==
    IF sorted = <<>> THEN <<x>>
    ELSE IF x <= Head(sorted) THEN <<x>> \o sorted
    ELSE <<Head(sorted)>> \o np_insert(Tail(sorted), x)

RECURSIVE np_sort(_)
\* np.sort: the values in ascending order.
np_sort(a) ==
    IF a = <<>> THEN <<>> ELSE np_insert(np_sort(Tail(a)), Head(a))

reversed_Identity(a) == a

\* a[::-1]
reversed(a) == Values([k \in 1..Len(a) |-> a[Len(a) + 1 - k]])

\* np.arange(lo, hi): lo, lo + 1, ..., hi - 1.
np_arange(lo, hi) == Values([k \in 1..(hi - lo) |-> lo + k - 1])

exceedance_prob_OverN(ranks, n) ==
    Values([k \in 1..Len(ranks) |-> divide(ranks[k], n)])

\* ranks / (n + 1), elementwise.
exceedance_prob(ranks, n) ==
    Values([k \in 1..Len(ranks) |-> divide(ranks[k], n + 1)])

\* 1 / exceedance_prob, elementwise.
return_periods(probs) ==
    Values([k \in 1..Len(probs) |-> reciprocal(probs[k])])

\* The three arrays calculate_return_period returns, from the sorted values.
weibull_positions(sorted_damages) ==
    [sorted_damages |-> sorted_damages,
     return_periods |->
         return_periods(exceedance_prob(np_arange(1, Len(sorted_damages) + 1),
                                        Len(sorted_damages))),
     exceedance_prob |->
         exceedance_prob(np_arange(1, Len(sorted_damages) + 1),
                         Len(sorted_damages))]

calculate_return_period(annual_max_damages) ==
    weibull_positions(reversed(np_sort(annual_max_damages)))

calculate_flood_frequency_curve_SwappedOutputs(damages) ==
    IF Len(damages) = 0
    THEN [sorted_damages |-> <<>>, return_periods |-> <<>>,
          exceedance_prob |-> <<>>]
    ELSE [sorted_damages |-> calculate_return_period(damages).sorted_damages,
          return_periods |-> calculate_return_period(damages).exceedance_prob,
          exceedance_prob |-> calculate_return_period(damages).return_periods]

calculate_flood_frequency_curve(damages) ==
    IF Len(damages) = 0
    THEN [sorted_damages |-> <<>>, return_periods |-> <<>>,
          exceedance_prob |-> <<>>]
    ELSE calculate_return_period(damages)

(***************************************************************************)
(* SpecFreq: calculate_return_period or calculate_flood_frequency_curve    *)
(* called once on a bounded sequence of damages.                           *)
(***************************************************************************)
DamageInputs == UNION {[1..n -> {10 * v : v \in 1..MaxVal}] : n \in 0..MaxLen}

InitFreq ==
    /\ fn = "none"
    /\ args \in DamageInputs
    /\ ret = None
    /\ AppIdle

CallReturnPeriod ==
    /\ fn = "none"
    /\ fn' = "calculate_return_period"
    /\ ret' = calculate_return_period(args)
    /\ UNCHANGED <<args, appVars>>

CallFloodFrequencyCurve ==
    /\ fn = "none"
    /\ fn' = "calculate_flood_frequency_curve"
    /\ ret' = calculate_flood_frequency_curve(args)
    /\ UNCHANGED <<args, appVars>>

NextFreq == CallReturnPeriod \/ CallFloodFrequencyCurve

SpecFreq == InitFreq /\ [][NextFreq]_vars

ReturnPeriodCalled == fn = "calculate_return_period"
FrequencyCurveCalled == fn = "calculate_flood_frequency_curve"

\* Equality and order of two quotients with positive denominators.
QuotientEq(p, q) == p.num * q.den = q.num * p.den
QuotientLess(p, q) == p.num * q.den < q.num * p.den
QuotientLeq(p, q) == p.num * q.den <= q.num * p.den

\* The number of places of a sequence that hold v.
Occurrences(q, v) == Cardinality({k \in 1..Len(q) : q[k] = v})

\* C11: for n >= 1 values calculate_return_period returns the values sorted
\* in descending order (a permutation of the input), and at rank m = 1..n
\* the exceedance probability m/(n+1) and the return period (n+1)/m;
\* [10,30,20] gives [30,20,10], [1/4, 1/2, 3/4] and [4, 2, 4/3].
C11_WeibullPositions ==
    (ReturnPeriodCalled /\ Len(args) >= 1) =>
        LET n == Len(args)
        IN  /\ Len(ret.sorted_damages) = n
            /\ Len(ret.exceedance_prob) = n
            /\ Len(ret.return_periods) = n
            /\ \A k \in 1..(n - 1) :
                   ret.sorted_damages[k] >= ret.sorted_damages[k + 1]
            /\ \A v \in SeqRange(args) \cup SeqRange(ret.sorted_damages) :
                   Occurrences(ret.sorted_damages, v) = Occurrences(args, v)
            /\ \A m \in 1..n :
                   /\ ret.exceedance_prob[m].den > 0
                   /\ ret.return_periods[m].den > 0
                   /\ QuotientEq(ret.exceedance_prob[m], [num |-> m, den |-> n + 1])
                   /\ QuotientEq(ret.return_periods[m], [num |-> n + 1, den |-> m])
            /\ (args = <<10, 30, 20>> =>
                    /\ ret.sorted_damages = <<30, 20, 10>>
                    /\ QuotientEq(ret.exceedance_prob[1], [num |-> 1, den |-> 4])
                    /\ QuotientEq(ret.exceedance_prob[2], [num |-> 1, den |-> 2])
                    /\ QuotientEq(ret.exceedance_prob[3], [num |-> 3, den |-> 4])
                    /\ QuotientEq(ret.return_periods[1], [num |-> 4, den |-> 1])
                    /\ QuotientEq(ret.return_periods[2], [num |-> 2, den |-> 1])
                    /\ QuotientEq(ret.return_periods[3], [num |-> 4, den |-> 3]))

C11_Witness ==
    /\ ReturnPeriodCalled
    /\ args = <<10, 30, 20>>
    /\ ret.sorted_damages = <<30, 20, 10>>
    /\ ret.return_periods[3] = [num |-> 4, den |-> 3]

\* C12 as stated: the return periods are non-decreasing as rank increases.
C12_ReturnPeriodsNonDecreasing ==
    ReturnPeriodCalled =>
        \A m \in 1..(Len(ret.return_periods) - 1) :
            QuotientLeq(ret.return_periods[m], ret.return_periods[m + 1])

\* C12, amended: the return periods are monotonically non-increasing as rank
\* increases: return_periods[m] >= return_periods[m+1] for every consecutive
\* pair of ranks.
C12_ReturnPeriodsNonIncreasing ==
    ReturnPeriodCalled =>
        \A m \in 1..(Len(ret.return_periods) - 1) :
            QuotientLeq(ret.return_periods[m + 1], ret.return_periods[m])

C12_Witness ==
    /\ ReturnPeriodCalled
    /\ Len(args) = 4
    /\ ret.return_periods =
           <<[num |-> 5, den |-> 1], [num |-> 5, den |-> 2],
             [num |-> 5, den |-> 3], [num |-> 5, den |-> 4]>>

\* C13: for n >= 1 values the largest value (rank 1) gets the smallest
\* exceedance probability 1/(n+1) and the largest return period n+1; every
\* exceedance probability lies strictly between 0 and 1, every return period
\* is strictly greater than 1 and at most n+1.
C13_RarestIsLargest ==
    (ReturnPeriodCalled /\ Len(args) >= 1) =>
        LET n == Len(args)
            one == [num |-> 1, den |-> 1]
            zero == [num |-> 0, den |-> 1]
        IN  /\ \A k \in 1..n : ret.sorted_damages[1] >= args[k]
            /\ QuotientEq(ret.exceedance_prob[1], [num |-> 1, den |-> n + 1])
            /\ QuotientEq(ret.return_periods[1], [num |-> n + 1, den |-> 1])
            /\ \A m \in 1..n :
                   /\ ret.exceedance_prob[m].den > 0
                   /\ ret.return_periods[m].den > 0
                   /\ QuotientLeq(ret.exceedance_prob[1], ret.exceedance_prob[m])
                   /\ QuotientLeq(ret.return_periods[m], ret.return_periods[1])
                   /\ QuotientLess(zero, ret.exceedance_prob[m])
                   /\ QuotientLess(ret.exceedance_prob[m], one)
                   /\ QuotientLess(one, ret.return_periods[m])
                   /\ QuotientLeq(ret.return_periods[m],
                                  [num |-> n + 1, den |-> 1])

C13_Witness ==
    /\ ReturnPeriodCalled
    /\ args = <<20, 50, 20, 10, 40>>
    /\ ret.sorted_damages[1] = 50
    /\ ret.exceedance_prob[1] = [num |-> 1, den |-> 6]
    /\ ret.return_periods[5] = [num |-> 6, den |-> 5]

\* C14: calculate_flood_frequency_curve of an empty sequence returns three
\* empty sequences and raises no error; of a non-empty sequence it returns
\* exactly what calculate_return_period returns.
C14_FrequencyCurve ==
    FrequencyCurveCalled =>
        /\ Len(args) = 0 =>
               /\ ret.sorted_damages = <<>>
               /\ ret.return_periods = <<>>
               /\ ret.exceedance_prob = <<>>
        /\ Len(args) > 0 =>
               /\ ret.sorted_damages = reversed(np_sort(args))
               /\ ret.return_periods =
                      [m \in 1..Len(args) |-> [num |-> Len(args) + 1, den |-> m]]
               /\ ret.exceedance_prob =
                      [m \in 1..Len(args) |-> [num |-> m, den |-> Len(args) + 1]]
               /\ ret = calculate_return_period(args)

C14_Witness ==
    /\ FrequencyCurveCalled
    /\ args = <<>>
    /\ ret = [sorted_damages |-> <<>>, return_periods |-> <<>>,
              exceedance_prob |-> <<>>]

(***************************************************************************)
(* Time series decomposition                                               *)
(*                                                                         *)
(* A cell of a float column is [nan, num, den]: NaN, or the exact          *)
(* quotient num / den.                                                     *)
(***************************************************************************)
MaxYears == 6

NaN == [nan |-> TRUE, num |-> 0, den |-> 1]
number(x) == [nan |-> FALSE, num |-> x, den |-> 1]

Min2(a, b) == IF a <= b THEN a ELSE b

decomposition_window_AlwaysThree(n) == 3

\* window = min(3, len(annual_data)//2)
decomposition_window(n) == Min2(3, n \div 2)

window_offset_Trailing(window) == 0

\* rolling(center=True): how far the window reaches beyond its label.
window_offset(window) == (window - 1) \div 2

\* One cell of Series.rolling(window, center=True).mean(): the mean of the
\* window's values, NaN when the window runs off the series (min_periods
\* is the window size).
rolling_mean_at(series, i, window) ==
    IF i + window_offset(window) - window + 1 >= 1
       /\ i + window_offset(window) <= Len(series)
    THEN [nan |-> FALSE,
          num |-> sum_range(series, i + window_offset(window) - window + 1,
                            i + window_offset(window)),
          den |-> window]
    ELSE NaN

\* Series.rolling(window=window, center=True).mean()
rolling_mean(series, window) ==
    Values([i \in 1..Len(series) |-> rolling_mean_at(series, i, window)])

\* value - trend for one cell; NaN stays NaN.
cell_minus(x, t) ==
    IF t.nan THEN NaN
    ELSE [nan |-> FALSE, num |-> x * t.den - t.num, den |-> t.den]

\* annual_data[value_col] - annual_data['trend']
series_minus(series, trend) ==
    Values([k \in 1..Len(series) |-> cell_minus(series[k], trend[k])])

\* Series as floats, and a scalar written to every row.
series_numbers(series) == Values([k \in 1..Len(series) |-> number(series[k])])
broadcast(n, x) == Values([k \in 1..n |-> x])

\* The window >= 2 branch: trend, detrended and residual written into
\* annual_data (frame 1 of h).
decompose_rolling(h, value_col, window) ==
    df_setcol(
      df_setcol(
        df_setcol(h, 1, "trend", rolling_mean(column(h, 1, value_col), window)),
        1, "detrended",
        series_minus(column(h, 1, value_col),
                     rolling_mean(column(h, 1, value_col), window))),
      1, "residual",
      series_minus(column(h, 1, value_col),
                   rolling_mean(column(h, 1, value_col), window)))

\* The else branch.
decompose_flat(h, value_col) ==
    df_setcol(
      df_setcol(
        df_setcol(h, 1, "trend", series_numbers(column(h, 1, value_col))),
        1, "detrended", broadcast(Len(h[1]), number(0))),
      1, "residual", broadcast(Len(h[1]), number(0)))

\* time_series_decomposition from annual_data on.
decompose(h, value_col, window) ==
    IF window >= 2 THEN decompose_rolling(h, value_col, window)[1]
    ELSE decompose_flat(h, value_col)[1]

time_series_decomposition(df, value_col) ==
    decompose(<<groupby_sum(df, "year", value_col)>>, value_col,
              decomposition_window(Len(groupby_sum(df, "year", value_col))))

(***************************************************************************)
(* SpecDecomp: time_series_decomposition called once on a bounded event    *)
(* table: for each of MaxYears years, no event, one event or two.          *)
(***************************************************************************)
YearEventSamples == {<<>>, <<1>>, <<2>>, <<2, 1>>}

RECURSIVE events_of_years(_, _)
\* The table of the events of years y, y+1, ..., one row per event.
events_of_years(per_year, y) ==
    IF y > Len(per_year) THEN <<>>
    ELSE [k \in 1..Len(per_year[y]) |->
             [year |-> y, damage_usd |-> per_year[y][k]]]
         \o events_of_years(per_year, y + 1)

DecompInputs ==
    {events_of_years(p, 1) : p \in [1..MaxYears -> YearEventSamples]}

InitDecomp ==
    /\ fn = "none"
    /\ args \in DecompInputs
    /\ ret = None
    /\ AppIdle

CallTimeSeriesDecomposition ==
    /\ fn = "none"
    /\ fn' = "time_series_decomposition"
    /\ ret' = time_series_decomposition(args, "damage_usd")
    /\ UNCHANGED <<args, appVars>>

NextDecomp == CallTimeSeriesDecomposition

SpecDecomp == InitDecomp /\ [][NextDecomp]_vars

DecompCalled == fn = "time_series_decomposition"

\* The years that have an event, and the yearly sum of a year.
YearsOf(df) == {df[k].year : k \in 1..Len(df)}
RECURSIVE SumOver(_, _)
SumOver(df, S) ==
    IF S = {} THEN 0
    ELSE LET k == CHOOSE k \in S : TRUE
         IN  df[k].damage_usd + SumOver(df, S \ {k})
YearlySum(df, y) == SumOver(df, {k \in 1..Len(df) : df[k].year = y})

\* The places of the width-w window centred on place i.
CentredWindow(i, w) == (i - w \div 2)..(i + (w - 1) \div 2)

C21_TrendMissingAtBothEnds ==
    DecompCalled =>
        LET n == Cardinality(YearsOf(args))
        IN  n >= 4 =>
                /\ ret[1].trend.nan
                /\ ret[n].trend.nan
                /\ \A i \in 1..n :
                       IF ret[i].trend.nan THEN ret[i].residual.nan
                       ELSE /\ ~ret[i].residual.nan
                            /\ ret[i].residual.num * ret[i].trend.den =
                                   (ret[i].damage_usd * ret[i].trend.den
                                    - ret[i].trend.num) * ret[i].residual.den

(***************************************************************************)
(* The research CSV export (create_research_documentation_tab)             *)
(*                                                                         *)
(* A text is a sequence of characters; a name that holds no comma, quote   *)
(* or line break (a county, a type, a column name) is one character of     *)
(* it.  A float is the exact quotient [num, den], den a power of ten.      *)
(* The data_source column is not kept.                                     *)
(***************************************************************************)
DigitChars == <<"0", "1", "2", "3", "4", "5", "6", "7", "8", "9">>

RECURSIVE str_int(_)
\* str(n) for n >= 0.
str_int(n) ==
    IF n < 10 THEN <<DigitChars[n + 1]>>
    ELSE str_int(n \div 10) \o <<DigitChars[(n % 10) + 1]>>

\* %m, %d: two digits, zero padded.
two_digits(n) == IF n < 10 THEN <<"0">> \o str_int(n) ELSE str_int(n)

strftime_DayMonthSwapped(d) ==
    str_int(d.year) \o <<"-">> \o two_digits(d.day) \o <<"-">>
        \o two_digits(d.month)

\* Timestamp.strftime('%Y-%m-%d')
strftime(d) ==
    str_int(d.year) \o <<"-">> \o two_digits(d.month) \o <<"-">>
        \o two_digits(d.day)

RECURSIVE fraction_digits(_, _)
\* The decimals of num / den (0 <= num < den), shortest form, at least one.
fraction_digits(num, den) ==
    IF den <= 10 \/ num % (den \div 10) = 0
    THEN <<DigitChars[(num \div (den \div 10)) + 1]>>
    ELSE <<DigitChars[(num \div (den \div 10)) + 1]>>
         \o fraction_digits(num % (den \div 10), den \div 10)

\* repr of the float num / den, as to_csv writes it.
str_float(num, den) ==
    str_int(num \div den) \o <<".">> \o fraction_digits(num % den, den)

\* display_df['research_priority'], in units of 10^-7.
research_priority(row) ==
    [num |-> row.damage_usd * 4 + row.fatalities * 30000000
             + row.injuries * 10000000
             + (IF row.severity_level = "High" THEN 10
                ELSE IF row.severity_level = "Medium" THEN 5 ELSE 1) * 1000000,
     den |-> 10000000]

\* The order of sort_values(['research_priority', 'date'],
\* ascending=[False, False]): a comes strictly before b.
sorts_before(a, b) ==
    \/ a.research_priority.num > b.research_priority.num
    \/ /\ a.research_priority.num = b.research_priority.num
       /\ a.date.year * 10000 + a.date.month * 100 + a.date.day
              > b.date.year * 10000 + b.date.month * 100 + b.date.day

RECURSIVE sort_insert(_, _)
\* row put in its place in a sorted frame, after its equals.
sort_insert(sorted, row) ==
    IF sorted = <<>> THEN <<row>>
    ELSE IF sorts_before(row, Head(sorted)) THEN <<row>> \o sorted
    ELSE <<Head(sorted)>> \o sort_insert(Tail(sorted), row)

RECURSIVE sort_values(_, _)
\* The rows 1..k of df, sorted.
sort_values(df, k) ==
    IF k = 0 THEN <<>> ELSE sort_insert(sort_values(df, k - 1), df[k])

\* display_df: df.copy() with research_priority, sorted.
display_df(df) ==
    sort_values(
        Values([k \in 1..Len(df) |->
                   SetItem(df[k], "research_priority", research_priority(df[k]))]),
        Len(df))

\* county_data.get(x, {}).get('full_name', x)
county_full(cd, x) == IF x \in DOMAIN cd THEN cd[x].full_name ELSE x

\* One row of research_csv: the selected columns, county_full, the date as
\* text and damage_millions.
research_csv_row(row, cd) ==
    [date |-> strftime(row.date), county |-> row.county, type |-> row.type,
     severity_level |-> row.severity_level,
     damage_classification |-> row.damage_classification,
     fatalities |-> row.fatalities, injuries |-> row.injuries,
     damage_usd |-> row.damage_usd, rain_inches |-> row.rain_inches,
     research_priority |-> row.research_priority,
     county_full |-> county_full(cd, row.county),
     damage_millions |-> [num |-> row.damage_usd, den |-> 1000000]]

research_csv(df, cd) ==
    Values([k \in 1..Len(df) |-> research_csv_row(df[k], cd)])

\* The columns of research_csv in order, with the way to_csv writes each:
\* a text as it is, a name as it is (none needs quoting), an int64 by str,
\* a float64 by repr (rain_inches is held in tenths).
csv_columns ==
    <<[name |-> "date", dtype |-> "text"],
      [name |-> "county", dtype |-> "name"],
      [name |-> "type", dtype |-> "name"],
      [name |-> "severity_level", dtype |-> "name"],
      [name |-> "damage_classification", dtype |-> "name"],
      [name |-> "fatalities", dtype |-> "int64"],
      [name |-> "injuries", dtype |-> "int64"],
      [name |-> "damage_usd", dtype |-> "int64"],
      [name |-> "rain_inches", dtype |-> "tenths"],
      [name |-> "research_priority", dtype |-> "float64"],
      [name |-> "county_full", dtype |-> "name"],
      [name |-> "damage_millions", dtype |-> "float64"]>>

csv_cell(dtype, value) ==
    IF dtype = "text" THEN value
    ELSE IF dtype = "name" THEN <<value>>
    ELSE IF dtype = "int64" THEN str_int(value)
    ELSE IF dtype = "tenths" THEN str_float(value, 10)
    ELSE str_float(value.num, value.den)

RECURSIVE csv_line(_, _)
\* The cells k, k+1, ... of a line, separated by commas, then the line end.
csv_line(cells, k) ==
    IF k = Len(cells) THEN cells[k] \o <<"\n">>
    ELSE cells[k] \o <<",">> \o csv_line(cells, k + 1)

csv_header ==
    csv_line([k \in 1..Len(csv_columns) |-> <<csv_columns[k].name>>], 1)

csv_row(row) ==
    csv_line([k \in 1..Len(csv_columns) |->
                 csv_cell(csv_columns[k].dtype, row[csv_columns[k].name])], 1)

RECURSIVE csv_rows(_, _)
csv_rows(frame, k) ==
    IF k > Len(frame) THEN <<>> ELSE csv_row(frame[k]) \o csv_rows(frame, k + 1)

\* DataFrame.to_csv(index=False)
to_csv(frame) == csv_header \o csv_rows(frame, 1)

\* csv_data of create_research_documentation_tab(df, county_data).
export_research_csv(df, cd) == to_csv(research_csv(display_df(df), cd))

(***************************************************************************)
(* Reading the exported text back: a CSV reader with the header in the     *)
(* first line, fields separated by commas, lines ended by line breaks.     *)
(***************************************************************************)
RECURSIVE split(_, _)
\* text.split(sep)
split(text, sep) ==
    IF \A i \in 1..Len(text) : text[i] # sep THEN <<text>>
    ELSE LET p == MinOf({i \in 1..Len(text) : text[i] = sep})
         IN  <<SubSeq(text, 1, p - 1)>>
             \o split(SubSeq(text, p + 1, Len(text)), sep)

\* The lines of a text, each without its line break.
csv_lines(text) ==
    [k \in 1..Cardinality({i \in 1..Len(text) : text[i] = "\n"}) |->
        LET ends == sorted_keys({i \in 1..Len(text) : text[i] = "\n"})
        IN  SubSeq(text, (IF k = 1 THEN 0 ELSE ends[k - 1]) + 1, ends[k] - 1)]

DigitValue(c) == CHOOSE d \in 0..9 : DigitChars[d + 1] = c

RECURSIVE parse_int(_)
parse_int(text) ==
    IF Len(text) = 1 THEN DigitValue(text[1])
    ELSE parse_int(SubSeq(text, 1, Len(text) - 1)) * 10
         + DigitValue(text[Len(text)])

RECURSIVE power_of_ten(_)
power_of_ten(k) == IF k = 0 THEN 1 ELSE 10 * power_of_ten(k - 1)

\* A decimal "i.f" as the quotient (i * 10^k + f) / 10^k, k the length of f.
parse_float(text) ==
    LET parts == split(text, ".")
    IN  [num |-> parse_int(parts[1]) * power_of_ten(Len(parts[2]))
                 + parse_int(parts[2]),
         den |-> power_of_ten(Len(parts[2]))]

\* 'YYYY-MM-DD' as its year, month and day.
parse_date(text) ==
    LET parts == split(text, "-")
    IN  <<parse_int(parts[1]), parse_int(parts[2]), parse_int(parts[3])>>

\* One data line as a record keyed by the header's column names.
csv_record(header, fields) ==
    [name \in {header[k][1] : k \in 1..Len(header)} |->
        fields[CHOOSE k \in 1..Len(header) : header[k][1] = name]]

\* The data rows of a CSV text, keyed by column name.
read_csv(text) ==
    LET lines == csv_lines(text)
        header == split(lines[1], ",")
    IN  Values([k \in 1..(Len(lines) - 1) |->
                   csv_record(header, split(lines[k + 1], ","))])

\* The (date, county, type, severity, fatalities, injuries, loss, rainfall)
\* tuple of a row read back from the CSV text.
ParsedTuple(r) ==
    [date |-> parse_date(r["date"]), county |-> r["county"][1],
     type |-> r["type"][1], severity |-> r["severity_level"][1],
     fatalities |-> parse_int(r["fatalities"]),
     injuries |-> parse_int(r["injuries"]),
     loss |-> parse_int(r["damage_usd"]),
     rainfall |-> parse_float(r["rain_inches"])]

\* The same tuple of an event of the filtered view.
EventTuple(row) ==
    [date |-> <<row.date.year, row.date.month, row.date.day>>,
     county |-> row.county, type |-> row.type, severity |-> row.severity_level,
     fatalities |-> row.fatalities, injuries |-> row.injuries,
     loss |-> row.damage_usd,
     rainfall |-> [num |-> row.rain_inches, den |-> 10]]

(***************************************************************************)
(* SpecExport: the export called on a filtered view the dashboard can      *)
(* hold in research mode, and the exported text read back.                 *)
(***************************************************************************)
\* Every combination of widget values the sidebar offers (the year slider
\* and the damage input at the positions the model tries).
AllSelections ==
    [county : county_options(load_oklahoma_counties),
     severity : severity_options, damage_class : damage_options,
     year_range : year_range_options(load_oklahoma_flood_data),
     type : flood_types(load_oklahoma_flood_data),
     min_damage : min_damage_options(load_oklahoma_flood_data),
     tribal_filter : tribal_options, research_mode : {TRUE}]

NotCached == [hit |-> FALSE, value |-> <<>>]

\* The filtered views main passes to the research documentation tab.
ExportInputs ==
    {main_run(NotCached, NotCached, s).filtered_df :
        s \in {t \in AllSelections : widgets_off_default(t) <= MaxActiveFilters}}
    \ {<<>>}

InitExport ==
    /\ fn = "none"
    /\ args \in ExportInputs
    /\ ret = None
    /\ AppIdle

CallExport ==
    /\ fn = "none"
    /\ fn' = "create_research_documentation_tab"
    /\ ret' = [csv_data |-> export_research_csv(args, load_oklahoma_counties)]
    /\ UNCHANGED <<args, appVars>>

ReadExport ==
    /\ fn = "create_research_documentation_tab"
    /\ fn' = "read_csv"
    /\ ret' = [csv_data |-> ret.csv_data, rows |-> read_csv(ret.csv_data)]
    /\ UNCHANGED <<args, appVars>>

NextExport == CallExport \/ ReadExport

SpecExport == InitExport /\ [][NextExport]_vars

\* C18: exporting a filtered set to CSV and re-parsing it recovers, for
\* every row, the same (date, county, type, severity, fatalities, injuries,
\* loss, rainfall) tuple, with the same number of rows as the filtered set.
C18_CsvRoundTrip ==
    fn = "read_csv" =>
        /\ Len(ret.rows) = Len(args)
        /\ {ParsedTuple(ret.rows[k]) : k \in 1..Len(ret.rows)}
               = {EventTuple(args[k]) : k \in 1..Len(args)}
        /\ \A k \in 1..Len(ret.rows) :
               ParsedTuple(ret.rows[k]) = EventTuple(display_df(args)[k])

C18_Witness ==
    /\ fn = "read_csv"
    /\ Len(args) = 20
    /\ Len(ret.rows) = 20
    /\ ParsedTuple(ret.rows[1]) =
           [date |-> <<2019, 5, 22>>, county |-> "Tulsa",
            type |-> "River Flood", severity |-> "High", fatalities |-> 0,
            injuries |-> 3, loss |-> 63500000,
            rainfall |-> [num |-> 152, den |-> 10]]
    /\ ParsedTuple(ret.rows[2]) =
           [date |-> <<2024, 4, 27>>, county |-> "Oklahoma",
            type |-> "Flash Flood", severity |-> "High", fatalities |-> 1,
            injuries |-> 15, loss |-> 25000000,
            rainfall |-> [num |-> 68, den |-> 10]]

(***************************************************************************)
(* SpecSessions: two sessions of the dashboard.  Each runs main() as its   *)
(* own script run, a statement group at a time, interleaved with the       *)
(* other's; the st.cache_data stores are the only objects they share.      *)
(* A run holds its frames in its own heap, frame 1 standing for the        *)
(* object the store keeps.                                                 *)
(***************************************************************************)
Sessions == 1..2

\* The widget values a session may hold: at most one widget off its default.
SessionSelections ==
    {[default_selections EXCEPT !.county = v] :
        v \in county_options(load_oklahoma_counties)}
    \cup {[default_selections EXCEPT !.severity = v] : v \in severity_options}
    \cup {[default_selections EXCEPT !.damage_class = v] : v \in damage_options}
    \cup {[default_selections EXCEPT !.year_range = v] :
              v \in year_range_options(load_oklahoma_flood_data)}
    \cup {[default_selections EXCEPT !.type = v] :
              v \in flood_types(load_oklahoma_flood_data)}
    \cup {[default_selections EXCEPT !.min_damage = v] :
              v \in min_damage_options(load_oklahoma_flood_data)}
    \cup {[default_selections EXCEPT !.tribal_filter = v] : v \in tribal_options}
    \cup {[default_selections EXCEPT !.research_mode = v] : v \in BOOLEAN}

\* A session that has not run the script.
SessionIdle ==
    [pc |-> "idle", sel |-> default_selections, heap |-> <<>>, flood |-> 0,
     filtered |-> 0, county_data |-> <<>>, flood_df |-> <<>>,
     filtered_df |-> <<>>, display |-> "not run", calls |-> {}]

InitSessions ==
    /\ fn = "none"
    /\ args = <<>>
    /\ ret = None
    /\ cache_events = [hit |-> FALSE, value |-> <<>>]
    /\ cache_counties = [hit |-> FALSE, value |-> <<>>]
    /\ flood_df = <<>>
    /\ county_data = <<>>
    /\ filtered_df = <<>>
    /\ sel = <<>>
    /\ display = "not run"
    /\ metrics = NoMetrics
    /\ calls = {}
    /\ sessions = [i \in Sessions |-> SessionIdle]

\* The heap of session i's run, frame 1 being the stored object as it is now.
session_heap(i) == [sessions[i].heap EXCEPT ![1] = cache_events.value]

\* The state of a run after a statement group: its heap and names, and the
\* stored object as the group left it.
SessionStep(i, pc, h, flood, filtered) ==
    /\ sessions' = [sessions EXCEPT ![i].pc = pc, ![i].heap = h,
                                    ![i].flood = flood,
                                    ![i].filtered = filtered]
    /\ cache_events' = [hit |-> TRUE, value |-> h[1]]

singleVars == <<fn, args, ret, flood_df, county_data, filtered_df, sel,
                display, metrics, calls>>

\* A widget interaction (or the first page load) of session i: Streamlit
\* starts the script from the top with the new widget values.
Interact(i) ==
    /\ sessions[i].pc = "idle"
    /\ \E s \in SessionSelections :
        /\ IF sessions[i].display = "not run" THEN s = default_selections
           ELSE Cardinality({k \in DOMAIN s : s[k] # sessions[i].sel[k]}) = 1
        /\ sessions' = [sessions EXCEPT ![i] =
                            [SessionIdle EXCEPT !.pc = "load", !.sel = s,
                                                !.display = "running"]]
    /\ UNCHANGED <<cache_events, cache_counties, singleVars>>

\* county_data = load_oklahoma_counties(); flood_df = load_oklahoma_flood_data()
LoadData(i) ==
    /\ sessions[i].pc = "load"
    /\ \E fl \in {main_load(cache_lookup(cache_events, load_oklahoma_flood_data))} :
        /\ sessions' = [sessions EXCEPT
               ![i].pc = "date", ![i].heap = fl.heap, ![i].flood = fl.ref,
               ![i].county_data =
                   cache_lookup(cache_counties, load_oklahoma_counties).value]
        /\ cache_events' = [hit |-> TRUE, value |-> fl.heap[1]]
    /\ cache_counties' = cache_lookup(cache_counties, load_oklahoma_counties)
    /\ UNCHANGED singleVars

\* flood_df['date'] = pd.to_datetime(flood_df['date'])
ConvertDate(i) ==
    /\ sessions[i].pc = "date"
    /\ SessionStep(i, "year", set_date(session_heap(i), sessions[i].flood),
                   sessions[i].flood, 0)
    /\ UNCHANGED <<cache_counties, singleVars>>

\* flood_df['year'] = flood_df['date'].dt.year
AddYear(i) ==
    /\ sessions[i].pc = "year"
    /\ SessionStep(i, "filter", set_year(session_heap(i), sessions[i].flood),
                   sessions[i].flood, 0)
    /\ UNCHANGED <<cache_counties, singleVars>>

\* filtered_df = flood_df.copy() and the filters.
ApplyFilters(i) ==
    /\ sessions[i].pc = "filter"
    /\ \E f \in {apply_filters(session_heap(i), sessions[i].flood,
                               sessions[i].sel)} :
           SessionStep(i, "display", f.heap, sessions[i].flood, f.ref)
    /\ UNCHANGED <<cache_counties, singleVars>>

\* The metrics, map and tabs, or the warning; the run ends.
Display(i) ==
    /\ sessions[i].pc = "display"
    /\ \E r \in {main_display([heap |-> session_heap(i),
                               ref |-> sessions[i].filtered],
                              sessions[i].flood, cache_counties,
                              sessions[i].sel)} :
        /\ sessions' = [sessions EXCEPT
               ![i].pc = "idle", ![i].heap = <<>>, ![i].flood = 0,
               ![i].filtered = 0, ![i].flood_df = r.flood_df,
               ![i].filtered_df = r.filtered_df, ![i].display = r.display,
               ![i].calls = r.calls]
        /\ cache_events' = r.cache_events
    /\ UNCHANGED <<cache_counties, singleVars>>

NextSessions ==
    \E i \in Sessions :
        \/ Interact(i)
        \/ LoadData(i)
        \/ ConvertDate(i)
        \/ AddYear(i)
        \/ ApplyFilters(i)
        \/ Display(i)

SpecSessions == InitSessions /\ [][NextSessions]_vars

\* Session i's event table and filtered view as its run holds them now.
SessionFlood(i) == session_heap(i)[sessions[i].flood]
SessionFiltered(i) == session_heap(i)[sessions[i].filtered]

\* What a session running alone, on a fresh server, ends with for the
\* widget values s.
Alone(s) == main_run(NotCached, NotCached, s)

\* The loaded table with the dates parsed and no year column yet.
DatedTable ==
    [k \in 1..Len(load_oklahoma_flood_data) |->
        [load_oklahoma_flood_data[k] EXCEPT !.date = to_datetime(@)]]

\* C19: two sessions whose runs interleave with different selections never
\* affect each other: at every point of its run a session's event table,
\* filtered view and displayed results are what its own selections alone
\* give; the columns and filtered view the other session writes are never
\* in them, nor in the shared cached table.
C19_SessionsIsolated ==
    /\ cache_events.hit => cache_events.value = load_oklahoma_flood_data
    /\ \A i \in Sessions :
        /\ sessions[i].pc = "date" =>
               SessionFlood(i) = load_oklahoma_flood_data
        /\ sessions[i].pc = "year" => SessionFlood(i) = DatedTable
        /\ sessions[i].pc \in {"filter", "display"} =>
               SessionFlood(i) = BaseTable
        /\ sessions[i].pc = "display" =>
               /\ Len(SessionFiltered(i)) =
                      Len(Alone(sessions[i].sel).filtered_df)
               /\ \A k \in 1..Len(SessionFiltered(i)) :
                      /\ SessionFiltered(i)[k] =
                             BaseColumns(Alone(sessions[i].sel).filtered_df[k])
                      /\ MatchesListed(SessionFiltered(i)[k], sessions[i].sel)
                      /\ MatchesTribal(SessionFiltered(i)[k], sessions[i].sel)
        /\ (sessions[i].pc = "idle" /\ sessions[i].display # "not run") =>
               /\ sessions[i].flood_df = BaseTable
               /\ sessions[i].filtered_df =
                      Alone(sessions[i].sel).filtered_df
               /\ sessions[i].display = Alone(sessions[i].sel).display
               /\ sessions[i].calls = Alone(sessions[i].sel).calls
               /\ sessions[i].county_data = load_oklahoma_counties

C19_Witness ==
    /\ sessions[1].pc = "display"
    /\ sessions[1].sel.county = "Tulsa"
    /\ Len(SessionFiltered(1)) = 4
    /\ sessions[2].pc = "year"
    /\ sessions[2].sel.severity = "High"
    /\ cache_events.hit


(***************************************************************************)
(* Order and consistency of the calculator's tiers                         *)
(***************************************************************************)

\* The place of a severity tier in the order Low < Medium < High.
TierRank(tier) ==
    CASE tier = "Low" -> 1
      [] tier = "Medium" -> 2
      [] tier = "High" -> 3

\* b is a with exactly one of the three arguments increased.
RaisesOneArgument(a, b) ==
    \/ b.damage > a.damage /\ b.fatalities = a.fatalities
                           /\ b.injuries = a.injuries
    \/ b.fatalities > a.fatalities /\ b.damage = a.damage
                                   /\ b.injuries = a.injuries
    \/ b.injuries > a.injuries /\ b.damage = a.damage
                               /\ b.fatalities = a.fatalities

\* C25: calculate_severity_level is monotone in each argument: for
\* non-negative inputs, increasing the loss, the fatality count or the
\* injury count while the others stay fixed never lowers the tier in the
\* order Low < Medium < High.
C25_SeverityMonotone ==
    SeverityCalled =>
        \A b \in SeverityInputs :
            RaisesOneArgument(args, b) =>
                TierRank(calculate_severity_level(b.damage, b.fatalities,
                                                  b.injuries))
                    >= TierRank(ret)

\* Ten injuries and no fatality give High; one fatality more keeps High.
C25_Witness ==
    /\ SeverityCalled
    /\ args = [damage |-> 0, fatalities |-> 0, injuries |-> 10]
    /\ ret = "High"
    /\ calculate_severity_level(0, 1, 10) = "High"

\* The one-event table of the calculator's inputs, as load_oklahoma_flood_data
\* annotates it, filtered by severity and then by damage class.
SeverityThenClass(event, severity, damage_class) ==
    filter_damage_class(
        filter_severity([heap |-> <<(<<annotate_event(event)>>)>>, ref |-> 1],
                        [severity |-> severity, damage_class |-> damage_class]),
        [severity |-> severity, damage_class |-> damage_class])

\* C26: the severity tier and the damage classification of one input are
\* consistent: a Catastrophic loss is always High, a Major loss is at least
\* Medium, a Low event is always Minor or Moderate; hence the severity
\* filter 'Low' with the damage-class filter 'Major' or 'Catastrophic'
\* keeps no event.
C26_TierAndClassConsistent ==
    SeverityCalled =>
        /\ calculate_damage_classification(args.damage) = "Catastrophic"
               => ret = "High"
        /\ calculate_damage_classification(args.damage) = "Major"
               => ret \in {"Medium", "High"}
        /\ ret = "Low" =>
               calculate_damage_classification(args.damage)
                   \in {"Minor", "Moderate"}
        /\ \A c \in {"Major", "Catastrophic"} :
               \E r \in {SeverityThenClass(
                             [damage_usd |-> args.damage,
                              fatalities |-> args.fatalities,
                              injuries |-> args.injuries], "Low", c)} :
                   Len(r.heap[r.ref]) = 0

\* A Major loss without casualties is Medium, and the 'Low' filter drops it
\* while the 'Medium' filter with 'Major' keeps it.
C26_Witness ==
    /\ SeverityCalled
    /\ args = [damage |-> 10000000, fatalities |-> 0, injuries |-> 0]
    /\ ret = "Medium"
    /\ \E r \in {SeverityThenClass([damage_usd |-> 10000000, fatalities |-> 0,
                                    injuries |-> 0], "Medium", "Major")} :
           Len(r.heap[r.ref]) = 1

(***************************************************************************)
(* The Mann-Kendall test on the reversed series                            *)
(***************************************************************************)

\* The series d read from its last observation to its first.
ReverseOf(d) == Values([k \in 1..Len(d) |-> d[Len(d) + 1 - k]])

\* The trend label with Increasing and Decreasing swapped.
SwapTrend(trend) ==
    CASE trend = "Increasing" -> "Decreasing"
      [] trend = "Decreasing" -> "Increasing"
      [] OTHER -> trend

\* C27: reversing the series negates the Mann-Kendall statistic: the test
\* on reverse(d) returns S and Z negated, the same p-value, and the trend
\* label with Increasing and Decreasing swapped.
C27_ReversalNegates ==
    MKCalled =>
        \E r \in {mann_kendall_trend_test(ReverseOf(args))} :
            /\ r.S = -ret.S
            /\ r.Z.num = -ret.Z.num
            /\ r.Z.var18 = ret.Z.var18
            /\ r.p_value = ret.p_value
            /\ r.trend = SwapTrend(ret.trend)

C27_Witness ==
    /\ MKCalled
    /\ args = <<1, 2, 3, 4, 5>>
    /\ ret.S = 10
    /\ ret.trend = "Increasing"
    /\ mann_kendall_trend_test(<<5, 4, 3, 2, 1>>).S = -10
    /\ mann_kendall_trend_test(<<5, 4, 3, 2, 1>>).trend = "Decreasing"

(***************************************************************************)
(* The figures a run displays                                              *)
(***************************************************************************)

\* The places in the event table of the events that match the selections s.
Matching(s) ==
    {j \in 1..Len(flood_df) : /\ MatchesListed(flood_df[j], s)
                              /\ MatchesTribal(flood_df[j], s)}

MatchingIn(s, y) == {j \in Matching(s) : flood_df[j].year = y}
MatchingYears(s) == {flood_df[j].year : j \in Matching(s)}

\* C22: after every interaction the annual aggregates on display (the
\* per-year event count and the per-year summed loss) are the group-by-year
\* of the filtered view for the current selections: one entry per year that
\* has a matching event, in year order, holding that year's count and sum;
\* when no event matches, no aggregate is displayed at all.
C22_AnnualAggregatesOfCurrentView ==
    PageOpened =>
        IF display = "data"
        THEN /\ {filtered_df[k].year : k \in 1..Len(filtered_df)}
                    = MatchingYears(sel)
             /\ Len(metrics.annual_counts) = Cardinality(MatchingYears(sel))
             /\ Len(metrics.annual_damages) = Cardinality(MatchingYears(sel))
             /\ \A k \in 1..Len(metrics.annual_counts) :
                    /\ metrics.annual_counts[k].year \in MatchingYears(sel)
                    /\ metrics.annual_counts[k].size =
                           Cardinality(MatchingIn(sel,
                                                  metrics.annual_counts[k].year))
                    /\ metrics.annual_damages[k].year =
                           metrics.annual_counts[k].year
                    /\ metrics.annual_damages[k].damage_usd =
                           SumOver(flood_df,
                                   MatchingIn(sel, metrics.annual_counts[k].year))
                    /\ k > 1 => metrics.annual_counts[k - 1].year
                                    < metrics.annual_counts[k].year
        ELSE /\ Matching(sel) = {}
             /\ metrics.annual_counts = <<>>
             /\ metrics.annual_damages = <<>>

\* River floods only: three events in 2019, one in 2020.
C22_Witness ==
    /\ display = "data"
    /\ sel.type = "River Flood"
    /\ metrics.annual_counts =
           <<[year |-> 2019, size |-> 3], [year |-> 2020, size |-> 1]>>
    /\ metrics.annual_damages =
           <<[year |-> 2019, damage_usd |-> 137200000],
             [year |-> 2020, damage_usd |-> 18600000]>>


\* C24: every event of the loaded table references a county that is a key
\* of the county table, so in every filtered view the display-name lookup
\* gives the county's full name, never the raw identifier, and every event
\* of the view gets its marker on the map.
C24_EveryEventHasItsCounty ==
    PageOpened =>
        /\ \A k \in 1..Len(flood_df) :
               flood_df[k].county \in DOMAIN county_data
        /\ \A k \in 1..Len(filtered_df) :
               /\ filtered_df[k].county \in DOMAIN county_data
               /\ county_full(county_data, filtered_df[k].county) =
                      county_data[filtered_df[k].county].full_name
               /\ county_full(county_data, filtered_df[k].county) #
                      filtered_df[k].county
        /\ display = "data" =>
               /\ Len(metrics.map_markers) = Len(filtered_df)
               /\ \A k \in 1..Len(filtered_df) :
                      metrics.map_markers[k] = filtered_df[k].county

\* The one event of Payne county is placed on the map.
C24_Witness ==
    /\ display = "data"
    /\ sel.county = "Payne"
    /\ Len(filtered_df) = 1
    /\ metrics.map_markers = <<"Payne">>
    /\ county_full(county_data, filtered_df[1].county) = "Payne County"


\* C29: for a non-empty filtered view and every selectable year range
\* [y0, y1] with y0 <= y1, a single-year range included, the 'Annual
\* Frequency' metric is the number of filtered events divided by the number
\* of years of the range, y1 - y0 + 1.
C29_AnnualFrequencyIsEventsPerYear ==
    display = "data" =>
        /\ sel.year_range[1] <= sel.year_range[2]
        /\ metrics.annual_frequency.den > 0
        /\ metrics.annual_frequency.num
               * (sel.year_range[2] - sel.year_range[1] + 1)
           = Len(filtered_df) * metrics.annual_frequency.den


\* The places in the event table of the events of a county.
EventsOfCounty(county) ==
    {j \in 1..Len(flood_df) : flood_df[j].county = county}

\* C30: when a county is selected and the filtered view is not empty, the
\* county detail panel's 'Historical Events', 'Total Damage' and 'High
\* Severity Events' are computed from the whole loaded event table for that
\* county: they depend on the county selection alone, whatever the
\* severity, damage-class, year-range, type, minimum-damage and tribal
\* selections are.
C30_CountyPanelFromWholeTable ==
    display = "data" =>
        IF sel.county # "All Counties"
        THEN /\ flood_df = BaseTable
             /\ metrics.county_panel.shown
             /\ metrics.county_panel.full_name =
                    load_oklahoma_counties[sel.county].full_name
             /\ metrics.county_panel.county_events =
                    Cardinality(EventsOfCounty(sel.county))
             /\ metrics.county_panel.county_damage =
                    SumOver(flood_df, EventsOfCounty(sel.county))
             /\ metrics.county_panel.high_sev_county =
                    Cardinality({j \in EventsOfCounty(sel.county) :
                                     flood_df[j].severity_level = "High"})
        ELSE ~metrics.county_panel.shown

\* Tulsa with severity 'Medium': the view holds two events, the panel
\* counts Tulsa's four events and its one of high severity.
C30_Witness ==
    /\ display = "data"
    /\ sel.county = "Tulsa"
    /\ sel.severity = "Medium"
    /\ Len(filtered_df) = 2
    /\ metrics.county_panel.county_events = 4
    /\ metrics.county_panel.county_damage = 97400000
    /\ metrics.county_panel.high_sev_county = 1


(***************************************************************************)
(* The filters of main in other orders                                     *)
(***************************************************************************)

\* The filters by the name of their widget, and main's order of them.
FilterOrder ==
    <<"county", "severity", "damage_class", "year_range", "type",
      "min_damage", "tribal_filter">>

FilterBy(name, hr, s) ==
    CASE name = "county" -> filter_county(hr, s)
      [] name = "severity" -> filter_severity(hr, s)
      [] name = "damage_class" -> filter_damage_class(hr, s)
      [] name = "year_range" -> filter_year_range(hr, s)
      [] name = "type" -> filter_type(hr, s)
      [] name = "min_damage" -> filter_min_damage(hr, s)
      [] name = "tribal_filter" -> filter_tribal(hr, s)

RECURSIVE FilterInOrder(_, _, _)
\* The filters named by order applied one after the other, first to last.
FilterInOrder(order, hr, s) ==
    IF order = <<>> THEN hr
    ELSE FilterInOrder(Tail(order), FilterBy(Head(order), hr, s), s)

\* The view the filters give on table in the given order.
ViewInOrder(order, table, s) ==
    Values(FilterInOrder(order, [heap |-> <<table>>, ref |-> 1], s).heap[
               FilterInOrder(order, [heap |-> <<table>>, ref |-> 1], s).ref])

\* The filters whose widget is off its default, and the others in main's
\* order.
ActiveFilters(s) ==
    {name \in SeqRange(FilterOrder) : s[name] # default_selections[name]}

RECURSIVE Without(_, _)
Without(order, names) ==
    IF order = <<>> THEN <<>>
    ELSE IF Head(order) \in names THEN Without(Tail(order), names)
    ELSE <<Head(order)>> \o Without(Tail(order), names)

\* Every order of the active filters, followed by the inactive ones; the
\* reverse of main's order; and main's order with two filters exchanged.
OtherOrders(s) ==
    {Values(q) \o Without(FilterOrder, ActiveFilters(s)) :
        q \in {f \in [1..Cardinality(ActiveFilters(s)) -> ActiveFilters(s)] :
                  \A i, j \in DOMAIN f : i # j => f[i] # f[j]}}
    \cup {ReverseOf(FilterOrder)}
    \cup {[FilterOrder EXCEPT ![i] = FilterOrder[j], ![j] = FilterOrder[i]] :
            i, j \in 1..Len(FilterOrder)}

\* The filtered view, cut down to the base table's columns.
BaseView == Values([k \in 1..Len(filtered_df) |-> BaseColumns(filtered_df[k])])

\* C28: the filters of main commute and are idempotent: the filtered view
\* is the same in whatever order the county, severity, damage-class,
\* year-range, type, minimum-damage and tribal filters are applied; applying
\* the same selections to the filtered view leaves it unchanged; and the
\* default selections give the whole loaded table.
C28_FiltersCommuteAndIdempotent ==
    PageOpened =>
        /\ \A order \in OtherOrders(sel) :
               ViewInOrder(order, flood_df, sel) = BaseView
        /\ \A f, g \in SeqRange(FilterOrder) :
               ViewInOrder(<<f, g>>, flood_df, sel) =
                   ViewInOrder(<<g, f>>, flood_df, sel)
        /\ ViewInOrder(FilterOrder, filtered_df, sel) = filtered_df
        /\ \E r \in {apply_filters(<<filtered_df>>, 1, sel)} :
               r.heap[r.ref] = filtered_df
        /\ ViewInOrder(FilterOrder, flood_df, default_selections) = flood_df
        /\ sel = [default_selections EXCEPT !.research_mode = sel.research_mode]
               => BaseView = flood_df

\* Tulsa's river floods with a tribal impact: three filters are active, and
\* the type filter alone keeps more than the view does.
C28_Witness ==
    /\ display = "data"
    /\ sel.county = "Tulsa"
    /\ sel.type = "River Flood"
    /\ sel.tribal_filter = "Tribal Impact Events Only"
    /\ Len(filtered_df) = 2
    /\ Len(ViewInOrder(<<"type">>, flood_df, sel)) = 4
    /\ Len(ViewInOrder(<<"tribal_filter", "type", "county">>, flood_df, sel)) = 2


(***************************************************************************)
(* The statistical summary report (create_statistical_summary)             *)
(*                                                                         *)
(* SpecSummary: the report generated once for a non-empty filtered view.   *)
(* The report is held by its event total and the entries of its trend      *)
(* analysis section.                                                       *)
(***************************************************************************)

create_statistical_summary_TwoYears(df, cd) ==
    [total_events |-> Len(df),
     trend_analysis |->
         IF Len(groupby_size(df, "year")) >= 2
         THEN <<mann_kendall_trend_test(
                    column(<<groupby_size(df, "year")>>, 1, "size"))>>
         ELSE <<>>]

\* create_statistical_summary: 'Total Events' and the Mann-Kendall entry
\* of the trend analysis, added under "if len(annual_counts) >= 3".
create_statistical_summary(df, cd) ==
    [total_events |-> Len(df),
     trend_analysis |->
         IF Len(groupby_size(df, "year")) >= 3
         THEN <<mann_kendall_trend_test(
                    column(<<groupby_size(df, "year")>>, 1, "size"))>>
         ELSE <<>>]

CallStatisticalSummary ==
    /\ fn = "none"
    /\ fn' = "create_statistical_summary"
    /\ ret' = create_statistical_summary(args, load_oklahoma_counties)
    /\ UNCHANGED <<args, appVars>>

NextSummary == CallStatisticalSummary

SpecSummary == InitExport /\ [][NextSummary]_vars

SummaryCalled == fn = "create_statistical_summary"

\* The k-th year of a table in year order, and the events per year.
KthYear(df, k) ==
    CHOOSE y \in YearsOf(df) : Cardinality({z \in YearsOf(df) : z < y}) = k - 1

CountsByYear(df) ==
    Values([k \in 1..Cardinality(YearsOf(df)) |->
               Cardinality({j \in 1..Len(df) : df[j].year = KthYear(df, k)})])

\* C23 as stated: for every non-empty filtered set the report contains the
\* Mann-Kendall result (S, Z, p-value, trend) for the annual event counts.
C23_ReportAlwaysHasMannKendall ==
    SummaryCalled =>
        /\ Len(ret.trend_analysis) = 1
        /\ ret.trend_analysis[1] = mann_kendall_trend_test(CountsByYear(args))

\* C23, amended: for every non-empty filtered set whose events fall in at
\* least 3 distinct years the report contains the Mann-Kendall result (S,
\* Z, p-value, trend) for the annual event counts; for a set whose events
\* fall in fewer than 3 distinct years the report contains no Mann-Kendall
\* result.
C23_ReportHasMannKendallFromThreeYears ==
    SummaryCalled =>
        /\ ret.total_events = Len(args)
        /\ Len(args) > 0
        /\ IF Cardinality(YearsOf(args)) >= 3
           THEN /\ Len(ret.trend_analysis) = 1
                /\ ret.trend_analysis[1] =
                       mann_kendall_trend_test(CountsByYear(args))
           ELSE ret.trend_analysis = <<>>

\* The whole table: 20 events in 11 years, with its Mann-Kendall entry.
C23_Witness ==
    /\ SummaryCalled
    /\ Len(args) = 20
    /\ Cardinality(YearsOf(args)) = 11
    /\ Len(ret.trend_analysis) = 1
    /\ ret.trend_analysis[1].trend = "No significant trend"

\* Payne county's single event: a report without a Mann-Kendall entry.
C23_ShortWitness ==
    /\ SummaryCalled
    /\ Len(args) = 1
    /\ args[1].county = "Payne"
    /\ ret.trend_analysis = <<>>

=============================================================================
